---- MODULE Spec2Model ----
(***************************************************************************)
(* Model of hydra_cached: the recursive instantiation engine with          *)
(* determinism-aware memoization (execution/hydra.py, hydra_utils.py) and  *)
(* the in-memory / dumpable caches (execution/caching).                    *)
(*                                                                         *)
(* A configuration node is a record:                                       *)
(*   [kind |-> "none"]                       None                          *)
(*   [kind |-> "scalar", value |-> s]        a primitive leaf              *)
(*   [kind |-> "scalar", hash |-> h]         a joblib digest string        *)
(*   [kind |-> "list", items |-> <<n, ..>>]  ListConfig                    *)
(*   [kind |-> "dict", items |-> <<[key |-> k, node |-> n], ..>>]          *)
(*                                           DictConfig, insertion order   *)
(* Instances are nodes (passed through), plain containers ("pylist",       *)
(* "pydict") and constructed objects ("obj").  A constructor is            *)
(* uninterpreted: its result is the term of its target and arguments, and  *)
(* for a target marked not deterministic additionally a nonce that the     *)
(* environment chooses at every call.                                      *)
(***************************************************************************)
EXTENDS Integers, Sequences, FiniteSets, TLC

VARIABLES cache, disk, last, race, mem

vars == <<cache, disk, last, race, mem>>

\* ---------------------------------------------------------------- bounds
\* Results a not deterministic target can produce: nonces 0..MaxNonce.
MaxNonce == 1
\* Measured constructor times (seconds): 1..MaxTime + 1, the min_time of
\* main.py's constraint and longer ones.
MaxTime == 1

Nonces == 0..MaxNonce
Times == 1..(MaxTime + 1)

\* ------------------------------------------------------------ node model
None == [kind |-> "none"]
Scalar(v) == [kind |-> "scalar", value |-> v]
ListCfg(items) == [kind |-> "list", items |-> items]
DictCfg(items) == [kind |-> "dict", items |-> items]
Item(k, n) == [key |-> k, node |-> n]

IsConfig(node) == node.kind \in {"list", "dict"}
IsDict(node) == node.kind = "dict"
IsList(node) == node.kind = "list"

HasKey(node, k) == \E i \in 1..Len(node.items) : node.items[i].key = k

Get(node, k, default) ==
    IF HasKey(node, k)
    THEN node.items[CHOOSE i \in 1..Len(node.items) : node.items[i].key = k].node
    ELSE default

\* DictConfig.__setitem__: an existing key keeps its position, a new key is
\* appended.
SetItem(node, k, n) ==
    IF HasKey(node, k)
    THEN [node EXCEPT !.items = [i \in 1..Len(node.items) |->
              IF node.items[i].key = k THEN Item(k, n) ELSE node.items[i]]]
    ELSE [node EXCEPT !.items = Append(node.items, Item(k, n))]

\* ListConfig.__setitem__ with a 0-based index.
SetIndex(node, idx, n) == [node EXCEPT !.items[idx + 1] = n]

RECURSIVE DropKey(_, _)
DropKey(items, k) ==
    IF items = <<>> THEN <<>>
    ELSE IF Head(items).key = k THEN DropKey(Tail(items), k)
    ELSE <<Head(items)>> \o DropKey(Tail(items), k)

\* DictConfig.pop(key, default): the node without the key.
Pop(node, k) == [node EXCEPT !.items = DropKey(node.items, k)]

_is_target(node) == IsDict(node) /\ HasKey(node, "_target_")

exclude_keys == {"_target_", "_convert_", "_recursive_", "_cache_result_", "_result_hash_"}

\* -------------------------------------------------------------- targets
\* Importable callables, and those decorated with @not_deterministic.
Targets == {"add", "consumer", "random_source", "broken"}
NotDeterministicTargets == {"random_source"}
\* Callables that raise when called.
RaisingTargets == {"broken"}

\* mutant: every target counts as marked
FuncInfo_from_func_Always(target) == TRUE
\* FuncInfo.from_func(func).not_deterministic
FuncInfo_from_func(target) == target \in NotDeterministicTargets

\* joblib.hash: an md5 digest, taken as collision free.
joblib_hash(x) == [md5 |-> x]

\* OmegaConf.structured(obj={"_result_hash_": h}, ...)
ResultHashConfig(h) ==
    DictCfg(<<Item("_result_hash_", [kind |-> "scalar", hash |-> h])>>)

\* ------------------------------------------------- InstantiatedNodeInfo
NoTime == <<>>

InstantiatedNodeInfo(nd, cr, dc, tt) ==
    [not_deterministic |-> nd, cache_result |-> cr,
     deterministic_config |-> dc, time_target |-> tt]

DefaultInfo == InstantiatedNodeInfo(FALSE, TRUE, None, NoTime)

\* InstantiatedNode(instance, info)
InstantiatedNode(instance, info) == [instance |-> instance, info |-> info]

\* InstantiatedNodeInfo.from_func(target, cache_result=...)
from_func(target, cr) ==
    InstantiatedNodeInfo(FuncInfo_from_func(target), cr, None, NoTime)

\* mutant: no child's deterministic_config is taken over
CombineConfigs_NoSubstitute(infos, i, parent_config, dc) == dc

\* mutant: every child's deterministic_config is set into a fresh copy of the
\* parent's configuration
CombineConfigs_FreshCopy(infos, i, parent_config, dc) ==
    LET with == {j \in 1..Len(infos) : infos[j].info.deterministic_config # None}
    IN IF with = {} THEN dc
       ELSE LET j == CHOOSE x \in with : \A y \in with : y <= x
                child == infos[j].info.deterministic_config
            IN IF IsList(parent_config) THEN SetIndex(parent_config, infos[j].key, child)
               ELSE SetItem(parent_config, infos[j].key, child)

\* The loop of combine over infos.items(): infos is the sequence of
\* [key, info] in insertion order; dc is the deterministic_config built so
\* far (None until the first child that has one).
RECURSIVE CombineConfigs(_, _, _, _)
CombineConfigs(infos, i, parent_config, dc) ==
    IF i > Len(infos) THEN dc
    ELSE LET k == infos[i].key
             child == infos[i].info.deterministic_config
         IN IF child # None
            THEN LET base == IF dc = None THEN parent_config ELSE dc
                     set == IF IsList(base) THEN SetIndex(base, k, child)
                            ELSE SetItem(base, k, child)
                 IN CombineConfigs(infos, i + 1, parent_config, set)
            ELSE CombineConfigs(infos, i + 1, parent_config, dc)

\* mutant: the children's cache_result is ignored
AllCacheResult_Ignored(infos) == TRUE
AllCacheResult(infos) == \A i \in 1..Len(infos) : infos[i].info.cache_result

\* mutant: not_deterministic is inherited from the children
combine_Transitive(infos, parent_config, has_target, target_info, deterministic_config) ==
    LET dc == IF deterministic_config = None
              THEN CombineConfigs(infos, 1, parent_config, None)
              ELSE deterministic_config
        nd == \/ has_target /\ target_info.not_deterministic
              \/ \E i \in 1..Len(infos) : infos[i].info.not_deterministic
        cr == AllCacheResult(infos) /\ (has_target => target_info.cache_result)
    IN InstantiatedNodeInfo(nd, cr, dc, NoTime)

\* InstantiatedNodeInfo.combine(infos, parent_config, target_info,
\* deterministic_config); has_target tells whether target_info was given.
combine(infos, parent_config, has_target, target_info, deterministic_config) ==
    LET dc == IF deterministic_config = None
              THEN CombineConfigs(infos, 1, parent_config, None)
              ELSE deterministic_config
        nd == IF has_target THEN target_info.not_deterministic ELSE FALSE
        cr == AllCacheResult(infos) /\ (has_target => target_info.cache_result)
    IN InstantiatedNodeInfo(nd, cr, dc, NoTime)

\* ------------------------------------------------------------ conversion
\* OmegaConf.to_container(node, resolve=True): plain dicts and lists all the
\* way down (the model has no structured configs, so SCMode.DICT_CONFIG
\* converts the same nodes).
RECURSIVE to_container(_)
to_container(v) ==
    IF v.kind \in {"dict", "pydict"}
    THEN [kind |-> "pydict", items |-> [i \in 1..Len(v.items) |->
             Item(v.items[i].key, to_container(v.items[i].node))]]
    ELSE IF v.kind \in {"list", "pylist"}
    THEN [kind |-> "pylist", items |-> [i \in 1..Len(v.items) |->
             to_container(v.items[i])]]
    ELSE v

\* OmegaConf.create(items, flags={"allow_objects": True}) and
\* DictConfig.__setitem__: plain containers become config containers,
\* objects and primitives stay.
RECURSIVE to_config(_)
to_config(v) ==
    IF v.kind \in {"dict", "pydict"}
    THEN [kind |-> "dict", items |-> [i \in 1..Len(v.items) |->
             Item(v.items[i].key, to_config(v.items[i].node))]]
    ELSE IF v.kind \in {"list", "pylist"}
    THEN [kind |-> "list", items |-> [i \in 1..Len(v.items) |->
             to_config(v.items[i])]]
    ELSE v

_convert_node(node, convert) ==
    IF IsConfig(node) /\ convert \in {"all", "partial"}
    THEN to_container(node)
    ELSE node

\* ------------------------------------------------------------ the cache
\* InMemoryCache.store: a function from keys to InstantiatedNode.  The store
\* is a Python dict, which finds a key by its hash before it compares; a
\* DictConfig hashes its string form, which lists the keys in insertion order
\* and its sequences in order, so the key is the node as an ordered structure.
EmptyStore == <<>>
\* mutant: entries of not deterministic targets are never found
Contains_DeterministicOnly(store, key) ==
    key \in DOMAIN store /\ ~store[key].info.not_deterministic
\* mutant: a lookup that never finds the key
Contains_Never(store, key) == FALSE
Contains(store, key) == key \in DOMAIN store
\* mutant: the stored instance with fresh metadata
GetItem_FreshInfo(store, key) == InstantiatedNode(store[key].instance, DefaultInfo)
GetItem(store, key) == store[key]
\* mutant: nothing is stored
SetStore_Dropped(store, key, value) == store
\* mutant: results of not deterministic targets are not stored
SetStore_SkipNotDeterministic(store, key, value) ==
    IF value.info.not_deterministic THEN store
    ELSE [k \in DOMAIN store \cup {key} |-> IF k = key THEN value ELSE store[k]]
\* mutant: an existing entry is updated field by field and keeps its info
SetStore_KeepsInfo(store, key, value) ==
    [k \in DOMAIN store \cup {key} |->
        IF k = key
        THEN (IF key \in DOMAIN store
              THEN InstantiatedNode(value.instance, store[key].info) ELSE value)
        ELSE store[k]]
SetStore(store, key, value) ==
    [k \in DOMAIN store \cup {key} |-> IF k = key THEN value ELSE store[k]]

\* ------------------------------------------------------------ evaluation
\* What one evaluation did, in order.
Event(ev, node) == [ev |-> ev, node |-> node]
CallEvent(node, args, kwargs) ==
    [ev |-> "call", node |-> node, args |-> args, kwargs |-> kwargs]

Outcome(instance, info, store, log, err) ==
    [instance |-> instance, info |-> info, cache |-> store, log |-> log, err |-> err]

\* mutant: the entries written so far are rolled back
Raised_RolledBack(store, log, err) == Outcome(None, DefaultInfo, EmptyStore, log, err)
\* an exception leaves the engine: no instance, the cache as it is
Raised(store, log, err) == Outcome(None, DefaultInfo, store, log, err)

\* _call_target(target, *args, **kwargs): the constructed object.
Obj(target, args, kwargs, nonce) ==
    [kind |-> "obj", target |-> target, args |-> args, kwargs |-> kwargs,
     nonce |-> nonce]

NonceChoices(target) ==
    IF target \in NotDeterministicTargets THEN Nonces ELSE {0}

IndexItems(nodes) == [i \in 1..Len(nodes) |-> Item(i - 1, nodes[i])]

\* mutant: the entry under the original key is not marked
MarkNotDeterministic_Forgotten(info) == info
\* dataclasses.replace(result_info, not_deterministic=True)
MarkNotDeterministic(info) == [info EXCEPT !.not_deterministic = TRUE]

\* mutant: the elapsed time is not recorded
ResultOf_NoTime(target_info, pre_info, infos, result_instance, t) ==
    LET info0 == IF target_info.not_deterministic
                 THEN combine(infos, None, TRUE, target_info,
                              ResultHashConfig(joblib_hash(result_instance)))
                 ELSE pre_info
    IN InstantiatedNode(result_instance, info0)

\* hydra.py 224-235: the pair of the instance that the constructor returned
\* after t seconds.
ResultOf(target_info, pre_info, infos, result_instance, t) ==
    LET info0 == IF target_info.not_deterministic
                 THEN combine(infos, None, TRUE, target_info,
                              ResultHashConfig(joblib_hash(result_instance)))
                 ELSE pre_info
    IN InstantiatedNode(result_instance, [info0 EXCEPT !.time_target = <<t>>])

\* hydra.py 221-247: the constructor has returned result_instance after t
\* seconds; p is the state after the children.
CallReturned(node, cache_key, target_info, pre_info, p, active, result_instance, t) ==
    LET result == ResultOf(target_info, pre_info, p.infos, result_instance, t)
        result_info == result.info
        result_not_deterministic ==
            InstantiatedNode(result_instance, MarkNotDeterministic(result_info))
        written == active /\ result_info.cache_result
        store1 == IF written THEN SetStore(p.cache, cache_key, result) ELSE p.cache
        store2 == IF written /\ cache_key # node
                  THEN SetStore(store1, node, result_not_deterministic)
                  ELSE store1
        log1 == IF written THEN Append(p.log, Event("write", cache_key)) ELSE p.log
        log2 == IF written /\ cache_key # node
                THEN Append(log1, Event("write", node)) ELSE log1
    IN Outcome(result_instance, result_info, store2,
               Append(log2, Event("return", node)), "none")

\* mutant: a hit on the substitute key stores the entry under the node too
CallTarget_FillsOwnKey(node, args, target, target_info, p, active) ==
    LET nd == target_info.not_deterministic
        pre_info == combine(p.infos, node, TRUE, target_info, None)
        dc == pre_info.deterministic_config
        secondary == ~nd /\ dc # None
        lookup == secondary /\ active
        found == lookup /\ Contains(p.cache, dc)
        log1 == IF lookup
                THEN Append(p.log, Event(IF found THEN "hit" ELSE "miss", dc))
                ELSE p.log
        cache_key == IF secondary THEN dc ELSE node
        kwargs == p.values
        logc == Append(log1, CallEvent(node, args, kwargs))
    IN IF p.err # "none" THEN {Raised(p.cache, p.log, p.err)}
       ELSE IF found
       THEN {Outcome(GetItem(p.cache, dc).instance, GetItem(p.cache, dc).info,
                     SetStore(p.cache, node, GetItem(p.cache, dc)),
                     log1 \o <<Event("write", node), Event("return", node)>>, "none")}
       ELSE IF target \in RaisingTargets
       THEN {Raised(p.cache, logc, "ConstructionError")}
       ELSE {CallReturned(node, cache_key, target_info, pre_info,
                          [p EXCEPT !.log = logc], active,
                          Obj(target, args, kwargs, nonce), t) :
                 nonce \in NonceChoices(target), t \in Times}

\* hydra.py 203-247: after the children of a Call node were evaluated.
CallTarget(node, args, target, target_info, p, active) ==
    LET nd == target_info.not_deterministic
        pre_info == combine(p.infos, node, TRUE, target_info, None)
        dc == pre_info.deterministic_config
        secondary == ~nd /\ dc # None
        lookup == secondary /\ active
        found == lookup /\ Contains(p.cache, dc)
        log1 == IF lookup
                THEN Append(p.log, Event(IF found THEN "hit" ELSE "miss", dc))
                ELSE p.log
        cache_key == IF secondary THEN dc ELSE node
        kwargs == p.values
        logc == Append(log1, CallEvent(node, args, kwargs))
    IN IF p.err # "none" THEN {Raised(p.cache, p.log, p.err)}
       ELSE IF found
       THEN {Outcome(GetItem(p.cache, dc).instance, GetItem(p.cache, dc).info,
                     p.cache, Append(log1, Event("return", node)), "none")}
       ELSE IF target \in RaisingTargets
       THEN {Raised(p.cache, logc, "ConstructionError")}
       ELSE {CallReturned(node, cache_key, target_info, pre_info,
                          [p EXCEPT !.log = logc], active,
                          Obj(target, args, kwargs, nonce), t) :
                 nonce \in NonceChoices(target), t \in Times}

\* mutant: any value is taken for a flag
IsBool_Lenient(v) == TRUE
\* isinstance(recursive, bool)
IsBool(v) == v \in {"true", "false"}

RECURSIVE instantiate_node(_, _, _, _, _, _, _)
RECURSIVE EvalChildren(_, _, _, _, _, _, _)

\* mutant: the entries are evaluated whatever the recursive flag is
EvalChild_AlwaysRecursive(item, as_call, convert, recursive, active, p) ==
    IF p.err # "none" THEN {p}
    ELSE IF as_call /\ item.key \in exclude_keys THEN {p}
    ELSE {[values |-> Append(p.values, Item(item.key,
                         IF as_call THEN _convert_node(o.instance, convert)
                         ELSE o.instance)),
           infos |-> Append(p.infos, [key |-> item.key, info |-> o.info]),
           cache |-> o.cache, log |-> o.log, err |-> o.err] :
             o \in instantiate_node(item.node, <<>>, convert, recursive, active,
                                    p.cache, p.log)}

\* One turn of a loop over the children (hydra.py 164-167, 193-201, 254-260,
\* 266-271). as_call: the loop of a Call node, which skips the reserved keys,
\* evaluates only if recursive and converts each value.
EvalChild(item, as_call, convert, recursive, active, p) ==
    IF p.err # "none" THEN {p}
    ELSE IF as_call /\ item.key \in exclude_keys THEN {p}
    ELSE IF as_call /\ recursive # "true"
    THEN {[p EXCEPT !.values = Append(@, Item(item.key, _convert_node(item.node, convert)))]}
    ELSE {[values |-> Append(p.values, Item(item.key,
                         IF as_call THEN _convert_node(o.instance, convert)
                         ELSE o.instance)),
           infos |-> Append(p.infos, [key |-> item.key, info |-> o.info]),
           cache |-> o.cache, log |-> o.log, err |-> o.err] :
             o \in instantiate_node(item.node, <<>>, convert, recursive, active,
                                    p.cache, p.log)}

\* mutant: the children are evaluated from the last to the first
RECURSIVE EvalChildren_Reversed(_, _, _, _, _, _, _)
EvalChildren_Reversed(items, i, as_call, convert, recursive, active, acc) ==
    IF i > Len(items) THEN acc
    ELSE EvalChildren_Reversed(items, i + 1, as_call, convert, recursive, active,
             UNION {EvalChild(items[Len(items) + 1 - i], as_call, convert,
                              recursive, active, p) : p \in acc})

EvalChildren(items, i, as_call, convert, recursive, active, acc) ==
    IF i > Len(items) THEN acc
    ELSE EvalChildren(items, i + 1, as_call, convert, recursive, active,
             UNION {EvalChild(items[i], as_call, convert, recursive, active, p) :
                        p \in acc})

Start(store, log) ==
    {[values |-> <<>>, infos |-> <<>>, cache |-> store, log |-> log, err |-> "none"]}

Values(p) == [i \in 1..Len(p.values) |-> p.values[i].node]

\* hydra.py 138-278
instantiate_node(node, args, convert0, recursive0, active, store, log0) ==
    LET log == Append(log0, Event("enter", node))
        convert == IF IsDict(node) /\ HasKey(node, "_convert_")
                   THEN Get(node, "_convert_", None).value ELSE convert0
        recursive == IF IsDict(node) /\ HasKey(node, "_recursive_")
                     THEN Get(node, "_recursive_", None).value ELSE recursive0
    IN IF node.kind = "none"
       THEN {Outcome(None, DefaultInfo, store, log, "none")}
       ELSE IF ~IsConfig(node)
       THEN {Outcome(node, DefaultInfo, store, log, "none")}
       ELSE IF ~IsBool(recursive)
       THEN {Raised(store, log, "TypeError")}
       ELSE IF IsList(node)
       THEN {IF p.err # "none" THEN Raised(p.cache, p.log, p.err)
             ELSE Outcome(IF convert \in {"all", "partial"}
                          THEN [kind |-> "pylist", items |-> Values(p)]
                          ELSE to_config([kind |-> "list", items |-> Values(p)]),
                          combine(p.infos, node, FALSE, DefaultInfo, None),
                          p.cache, p.log, "none") :
                p \in EvalChildren(IndexItems(node.items), 1, FALSE, convert,
                                   recursive, active, Start(store, log))}
       ELSE IF _is_target(node)
       THEN IF active /\ Contains(store, node)
            THEN {Outcome(GetItem(store, node).instance, GetItem(store, node).info,
                          store,
                          log \o <<Event("hit", node), Event("return", node)>>,
                          "none")}
            ELSE LET logm == IF active THEN Append(log, Event("miss", node)) ELSE log
                     target == Get(node, "_target_", None).value
                     cr == Get(node, "_cache_result_", Scalar("true")).value = "true"
                     target_info == from_func(target, cr)
                 IN IF target \notin Targets
                    THEN {Raised(store, logm, "InstantiationException")}
                    ELSE UNION {CallTarget(node, args, target, target_info, p, active) :
                                   p \in EvalChildren(node.items, 1, TRUE, convert,
                                                      recursive, active,
                                                      Start(store, logm))}
       ELSE {IF p.err # "none" THEN Raised(p.cache, p.log, p.err)
             ELSE Outcome(IF convert \in {"all", "partial"}
                          THEN [kind |-> "pydict", items |-> p.values]
                          ELSE to_config([kind |-> "dict", items |-> p.values]),
                          combine(p.infos, node, FALSE, DefaultInfo, None),
                          p.cache, p.log, "none") :
                p \in EvalChildren(node.items, 1, FALSE, convert, recursive,
                                   active, Start(store, log))}

\* --------------------------------------------------- top-level entry point
\* OmegaConf.merge(config, kwargs) for top-level keys: the override wins.
RECURSIVE Merge(_, _)
Merge(config, kwargs) ==
    IF kwargs = <<>> THEN config
    ELSE Merge(SetItem(config, Head(kwargs).key, Head(kwargs).node), Tail(kwargs))

\* How the caller passes the cache: an instance of Cache (the shared one),
\* None (a fresh InMemoryCache) or the string DONT_CACHE.
CacheModes == {"shared", "default", "disabled"}

\* mutant: the two flags stay in the top-level node
TopNode_KeepsFlags(config, kwargs) == Merge(config, kwargs)

\* The config as it reaches instantiate_node: merged, without the two popped
\* flags (hydra.py 102-108).
TopNode(config, kwargs) == Pop(Pop(Merge(config, kwargs), "_recursive_"), "_convert_")

\* mutant: the positional arguments are not handed on
instantiate_DropsArgs(config, args, kwargs, mode, store) ==
    IF config.kind = "none" THEN {Outcome(None, DefaultInfo, store, <<>>, "none")}
    ELSE IF ~IsDict(config)
    THEN {Raised(store, <<>>, "InstantiationException")}
    ELSE LET merged == Merge(config, kwargs)
             _recursive_ == Get(merged, "_recursive_", Scalar("true")).value
             _convert_ == Get(merged, "_convert_", Scalar("none")).value
             start == IF mode = "shared" THEN store ELSE EmptyStore
         IN instantiate_node(TopNode(config, kwargs), <<>>, _convert_, _recursive_,
                             mode # "disabled", start, <<>>)

\* mutant: the cache is left aside when positional arguments are given
instantiate_ArgsBypassCache(config, args, kwargs, mode, store) ==
    IF config.kind = "none" THEN {Outcome(None, DefaultInfo, store, <<>>, "none")}
    ELSE IF ~IsDict(config)
    THEN {Raised(store, <<>>, "InstantiationException")}
    ELSE LET merged == Merge(config, kwargs)
             _recursive_ == Get(merged, "_recursive_", Scalar("true")).value
             _convert_ == Get(merged, "_convert_", Scalar("none")).value
             start == IF mode = "shared" THEN store ELSE EmptyStore
         IN instantiate_node(TopNode(config, kwargs), args, _convert_, _recursive_,
                             mode # "disabled" /\ args = <<>>, start, <<>>)

\* mutant: the string DONT_CACHE selects the default cache
instantiate_DisabledIsDefault(config, args, kwargs, mode, store) ==
    IF config.kind = "none" THEN {Outcome(None, DefaultInfo, store, <<>>, "none")}
    ELSE IF ~IsDict(config)
    THEN {Raised(store, <<>>, "InstantiationException")}
    ELSE LET merged == Merge(config, kwargs)
             _recursive_ == Get(merged, "_recursive_", Scalar("true")).value
             _convert_ == Get(merged, "_convert_", Scalar("none")).value
             start == IF mode = "shared" THEN store ELSE EmptyStore
         IN instantiate_node(TopNode(config, kwargs), args, _convert_, _recursive_,
                             TRUE, start, <<>>)

\* hydra.py 27-124
instantiate(config, args, kwargs, mode, store) ==
    IF config.kind = "none" THEN {Outcome(None, DefaultInfo, store, <<>>, "none")}
    ELSE IF ~IsDict(config)
    THEN {Raised(store, <<>>, "InstantiationException")}
    ELSE LET merged == Merge(config, kwargs)
             _recursive_ == Get(merged, "_recursive_", Scalar("true")).value
             _convert_ == Get(merged, "_convert_", Scalar("none")).value
             start == IF mode = "shared" THEN store ELSE EmptyStore
         IN instantiate_node(TopNode(config, kwargs), args, _convert_, _recursive_,
                             mode # "disabled", start, <<>>)

\* ------------------------------------------------------- configurations
Call(target, items) == DictCfg(<<Item("_target_", Scalar(target))>> \o items)

\* {_target_: add, a: 2, b: 3}
Add23 == Call("add", <<Item("a", Scalar("2")), Item("b", Scalar("3"))>>)
\* {_target_: add, a: 1, b: {_target_: add, a: 2, b: 3}}
AddNested == Call("add", <<Item("a", Scalar("1")), Item("b", Add23)>>)
\* the same sub-configuration twice
AddShared == Call("add", <<Item("a", Add23), Item("b", Add23)>>)
\* {_target_: random_source}
RandomSource == Call("random_source", <<>>)
\* {_target_: consumer, x: {_target_: random_source}}
Consumer == Call("consumer", <<Item("x", RandomSource)>>)
\* a deterministic node two levels above the not deterministic one
AddConsumer == Call("add", <<Item("a", Consumer), Item("b", Scalar("1"))>>)
\* _cache_result_: false on a node above a not deterministic one
ConsumerNoCache ==
    Call("consumer", <<Item("_cache_result_", Scalar("false")), Item("x", RandomSource)>>)
\* ... and below a node that asks to be cached, beside a cacheable sibling
AddNoCache == Call("add", <<Item("a", ConsumerNoCache), Item("b", Add23)>>)
\* _recursive_: false on a nested Call
ConsumerRaw ==
    Call("consumer", <<Item("_recursive_", Scalar("false")), Item("x", Add23)>>)
AddRaw == Call("add", <<Item("a", ConsumerRaw), Item("b", Scalar("1"))>>)
\* Call nodes inside a sequence
ConsumerList == Call("consumer", <<Item("xs", ListCfg(<<RandomSource, Add23>>))>>)

\* The configurations of Spec: not deterministic nodes, nodes above them and
\* nodes that are not to be cached, beside a deterministic tree.
Configs == {AddNested, RandomSource, Consumer, AddConsumer, ConsumerNoCache,
            AddNoCache}

\* The configurations of SpecDet: deterministic, cacheable trees only.
DetConfigs == {AddNested, AddShared, ConsumerRaw, AddRaw}

\* ------------------------------------------------------------------ state
NoOp == [op |-> "init", config |-> None, node |-> None, args |-> <<>>,
         mode |-> "shared", instance |-> None, info |-> DefaultInfo,
         log |-> <<>>, pre |-> EmptyStore, post |-> EmptyStore, err |-> "none",
         constraints |-> {}, overwrite |-> FALSE, again |-> FALSE]

\* The evaluators that share the cache (threads of one process), none of
\* them started, and no constructor invoked yet.
Evaluators == {"e1", "e2"}
NoResult == InstantiatedNode(None, DefaultInfo)
Idle == [stack |-> <<>>, status |-> "idle", ret |-> NoResult]
NoRace == [ev |-> [e \in Evaluators |-> Idle], made |-> {}]

\* The configuration objects of the process: none yet, and an empty store.
NoMem == [objs |-> <<>>, store |-> EmptyStore, op |-> "init", input |-> None,
          config |-> None, kwargs |-> <<>>, info |-> DefaultInfo,
          err |-> "none", calls |-> 0]

Init ==
    /\ cache = EmptyStore
    /\ disk = EmptyStore
    /\ last = NoOp
    /\ race = NoRace
    /\ mem = NoMem

\* One call of instantiate(config, *args, cache=..., **kwargs).  again: the
\* call before it evaluated the same node on the same cache.
Instantiate(config, args, kwargs, mode) ==
    \E o \in instantiate(config, args, kwargs, mode, cache) :
        /\ cache' = IF mode = "shared" THEN o.cache ELSE cache
        /\ last' = [op |-> "instantiate", config |-> config,
                    node |-> TopNode(config, kwargs), args |-> args, mode |-> mode,
                    instance |-> o.instance, info |-> o.info, log |-> o.log,
                    pre |-> IF mode = "shared" THEN cache ELSE EmptyStore,
                    post |-> o.cache, err |-> o.err, constraints |-> {},
                    overwrite |-> FALSE,
                    again |-> /\ last.op = "instantiate"
                              /\ last.mode = "shared" /\ mode = "shared"
                              /\ last.node = TopNode(config, kwargs)]
        /\ UNCHANGED <<disk, race, mem>>

Next == \E config \in Configs : Instantiate(config, <<>>, <<>>, "shared")

Spec == Init /\ [][Next]_vars

NextDet == \E config \in DetConfigs : Instantiate(config, <<>>, <<>>, "shared")

SpecDet == Init /\ [][NextDet]_vars

\* ------------------------------------------------------------ persistence
\* OmegaConf.to_yaml(k) and OmegaConf.load(file): the YAML document of a key
\* made of primitives, and the key parsed back from it.
\* The document is the sequence of its YAML events, in the order of the keys
\* of the config (dump does not sort the keys).
RECURSIVE to_yaml(_)
RECURSIVE YamlItems(_, _)
YamlItems(items, i) ==
    IF i > Len(items) THEN <<>>
    ELSE <<[ev |-> "key", key |-> items[i].key]>>
         \o to_yaml(items[i].node) \o YamlItems(items, i + 1)

RECURSIVE YamlEntries(_, _)
YamlEntries(items, i) ==
    IF i > Len(items) THEN <<>>
    ELSE to_yaml(items[i]) \o YamlEntries(items, i + 1)

to_yaml(k) ==
    IF k.kind = "dict"
    THEN <<[ev |-> "mapping"]>> \o YamlItems(k.items, 1) \o <<[ev |-> "end"]>>
    ELSE IF k.kind = "list"
    THEN <<[ev |-> "sequence"]>> \o YamlEntries(k.items, 1) \o <<[ev |-> "end"]>>
    ELSE IF k.kind = "none" THEN <<[ev |-> "null"]>>
    ELSE <<[ev |-> "scalar", node |-> k]>>

\* The parser: [node, rest] of the first node of a sequence of events.
RECURSIVE ParseNode(_)
RECURSIVE ParseItems(_, _)
ParseItems(doc, acc) ==
    IF Head(doc).ev = "end" THEN [node |-> DictCfg(acc), rest |-> Tail(doc)]
    ELSE LET r == ParseNode(Tail(doc))
         IN ParseItems(r.rest, Append(acc, Item(Head(doc).key, r.node)))

RECURSIVE ParseEntries(_, _)
ParseEntries(doc, acc) ==
    IF Head(doc).ev = "end" THEN [node |-> ListCfg(acc), rest |-> Tail(doc)]
    ELSE LET r == ParseNode(doc)
         IN ParseEntries(r.rest, Append(acc, r.node))

ParseNode(doc) ==
    LET e == Head(doc)
    IN IF e.ev = "mapping" THEN ParseItems(Tail(doc), <<>>)
       ELSE IF e.ev = "sequence" THEN ParseEntries(Tail(doc), <<>>)
       ELSE IF e.ev = "null" THEN [node |-> None, rest |-> Tail(doc)]
       ELSE [node |-> e.node, rest |-> Tail(doc)]

from_yaml(doc) == ParseNode(doc).node

\* min_time of the execution-time constraint in main.py (seconds)
MinTime == 1

\* mutant: no constraint ever objects
Constraint_Never(c, k, v) == FALSE

\* The constraints of dumpable.py by name; TRUE: the constraint returns a
\* message, the entry is skipped.
Constraint(c, k, v) ==
    IF c = "not_deterministic" THEN v.info.not_deterministic
    ELSE IF c = "min_time"
    THEN v.info.time_target = NoTime \/ v.info.time_target[1] <= MinTime
    ELSE FALSE

\* mutant: an entry is skipped only if every constraint objects
Skipped_OnlyIfAll(constraints, k, v) == \A c \in constraints : Constraint(c, k, v)
Skipped(constraints, k, v) == \E c \in constraints : Constraint(c, k, v)

FileName(k) == joblib_hash(to_yaml(k))

\* mutant: a dump that replaces the files that exist
dump_AlwaysOverwrite(store, dir, constraints, overwrite) ==
    LET kept == {k \in DOMAIN store : ~Skipped(constraints, k, store[k])}
    IN [f \in DOMAIN dir \cup {FileName(k) : k \in kept} |->
           IF \E k \in kept : FileName(k) = f
           THEN LET k == CHOOSE k \in kept : FileName(k) = f
                IN [yaml |-> to_yaml(k), pkl |-> store[k]]
           ELSE dir[f]]

\* DumpableInMemoryCache.dump(directory, constraints, overwrite): the
\* directory afterwards.  A file is the pair of the .yaml and the .pkl.
dump(store, dir, constraints, overwrite) ==
    LET kept == {k \in DOMAIN store : ~Skipped(constraints, k, store[k])}
        new == {k \in kept : overwrite \/ FileName(k) \notin DOMAIN dir}
    IN [f \in DOMAIN dir \cup {FileName(k) : k \in new} |->
           IF \E k \in new : FileName(k) = f
           THEN LET k == CHOOSE k \in new : FileName(k) = f
                IN [yaml |-> to_yaml(k), pkl |-> store[k]]
           ELSE dir[f]]

\* DumpableInMemoryCache.load(directory, constraints): the store afterwards.
load(store, dir, constraints) ==
    LET kept == {f \in DOMAIN dir :
                    ~Skipped(constraints, from_yaml(dir[f].yaml), dir[f].pkl)}
    IN [k \in DOMAIN store \cup {from_yaml(dir[f].yaml) : f \in kept} |->
           IF \E f \in kept : from_yaml(dir[f].yaml) = k
           THEN dir[CHOOSE f \in kept : from_yaml(dir[f].yaml) = k].pkl
           ELSE store[k]]

\* cache.dump(constraints=[...], overwrite=...)
Dump(constraints, overwrite) ==
    /\ disk' = dump(cache, disk, constraints, overwrite)
    /\ last' = [NoOp EXCEPT !.op = "dump", !.pre = cache, !.post = disk,
                            !.constraints = constraints,
                            !.overwrite = overwrite]
    /\ UNCHANGED <<cache, race, mem>>

\* A new process: DumpableInMemoryCache(directory=...), which loads the
\* directory into its empty store.  again: the step before was a dump of the
\* old process's cache into an empty directory.
NewDumpableCache ==
    /\ cache' = load(EmptyStore, disk, {})
    /\ last' = [NoOp EXCEPT !.op = "new", !.pre = cache,
                            !.constraints = last.constraints,
                            !.again = last.op = "dump" /\ last.post = EmptyStore]
    /\ UNCHANGED <<disk, race, mem>>

PersistConfigs == {RandomSource, Consumer}

ConstraintChoices == {{}, {"not_deterministic"}, {"not_deterministic", "min_time"}}

NextPersist ==
    \/ \E config \in PersistConfigs : Instantiate(config, <<>>, <<>>, "shared")
    \/ \E cs \in ConstraintChoices, overwrite \in BOOLEAN : Dump(cs, overwrite)
    \/ NewDumpableCache

SpecPersist == Init /\ [][NextPersist]_vars

\* ================================================================ claims
\* What the formulas below read off the last call.
Evaluated == last.op = "instantiate" /\ last.err = "none"

CallsOf(log, n) ==
    Cardinality({i \in 1..Len(log) : log[i].ev = "call" /\ log[i].node = n})

EntersOf(log, n) ==
    Cardinality({i \in 1..Len(log) : log[i].ev = "enter" /\ log[i].node = n})

WritesOf(log, n) ==
    Cardinality({i \in 1..Len(log) : log[i].ev = "write" /\ log[i].node = n})

\* Every Call node of a tree, the tree itself included.
RECURSIVE CallNodes(_)
CallNodes(n) ==
    IF n.kind = "dict"
    THEN (IF _is_target(n) THEN {n} ELSE {})
         \cup UNION {CallNodes(n.items[i].node) : i \in 1..Len(n.items)}
    ELSE IF n.kind = "list"
    THEN UNION {CallNodes(n.items[i]) : i \in 1..Len(n.items)}
    ELSE {}

\* The Call nodes of a tree that no enclosing Call with _recursive_ false
\* keeps from being evaluated; r0 is the flag inherited from the caller.
RECURSIVE Reached(_, _)
Reached(n, r0) ==
    IF n.kind = "list"
    THEN UNION {Reached(n.items[i], r0) : i \in 1..Len(n.items)}
    ELSE IF n.kind = "dict"
    THEN LET r == IF HasKey(n, "_recursive_")
                  THEN Get(n, "_recursive_", None).value ELSE r0
             below == UNION {Reached(n.items[i].node, r) :
                                i \in {j \in 1..Len(n.items) :
                                          ~(_is_target(n) /\ n.items[j].key \in exclude_keys)}}
         IN IF _is_target(n)
            THEN {n} \cup (IF r = "true" THEN below ELSE {})
            ELSE below
    ELSE {}

TopRecursive == Get(last.config, "_recursive_", Scalar("true")).value

TargetOf(n) == Get(n, "_target_", None).value
OwnNotDeterministic(n) == _is_target(n) /\ TargetOf(n) \in NotDeterministicTargets
AllDeterministic(n) == \A c \in CallNodes(n) : ~OwnNotDeterministic(c)
NoCacheFlag(n) ==
    _is_target(n) /\ Get(n, "_cache_result_", Scalar("true")).value # "true"
AllCacheable(n) == \A c \in CallNodes(n) : ~NoCacheFlag(c)

\* The call evaluated the node that the call before it evaluated, with the
\* same cache.
SecondEvaluation == last'.op = "instantiate" /\ last'.again

\* C1 as stated: a second evaluation of any Call node with the same cache
\* returns the identical (value, NodeInfo) pair, and over both evaluations the
\* node's constructor is invoked exactly once (the first evaluation being the
\* one that missed the cache).
C1_IdempotentHit_Original ==
    [][(/\ Evaluated /\ _is_target(last.node)
        /\ last.node \notin DOMAIN last.pre
        /\ SecondEvaluation)
       => /\ last'.instance = last.instance
          /\ last'.info = last.info
          /\ CallsOf(last.log, last.node) + CallsOf(last'.log, last'.node) = 1]_vars

\* C1 amended: for a Call node whose first evaluation invoked its constructor
\* with combined cache_result true, the second evaluation with the same cache
\* returns the same value without invoking the constructor again, and the same
\* NodeInfo except that not_deterministic is true when the node has a
\* deterministic target and a deterministic substitute; a node whose combined
\* cache_result is false is not stored, and its constructor is invoked again.
C1_IdempotentHit ==
    [][(/\ Evaluated /\ _is_target(last.node)
        /\ CallsOf(last.log, last.node) = 1
        /\ SecondEvaluation)
       => IF last.info.cache_result
          THEN /\ last'.instance = last.instance
               /\ last'.info =
                     IF ~OwnNotDeterministic(last.node)
                        /\ last.info.deterministic_config # None
                     THEN [last.info EXCEPT !.not_deterministic = TRUE]
                     ELSE last.info
               /\ CallsOf(last'.log, last'.node) = 0
          ELSE last'.err = "none" => CallsOf(last'.log, last'.node) = 1]_vars

\* A second evaluation of a deterministic node above a not deterministic one
\* took place and was answered from the cache.
C1_Witness ==
    /\ Evaluated /\ last.again /\ _is_target(last.node)
    /\ ~OwnNotDeterministic(last.node)
    /\ last.info.deterministic_config # None
    /\ last.node \in DOMAIN last.pre
    /\ CallsOf(last.log, last.node) = 0

\* The tree of the last call is deterministic and cacheable throughout, and
\* the cache held none of its Call nodes when the call began.
FreshDeterministicTree ==
    /\ Evaluated /\ _is_target(last.node) /\ last.mode = "shared"
    /\ AllDeterministic(last.node) /\ AllCacheable(last.node)
    /\ CallNodes(last.node) \cap DOMAIN last.pre = {}

\* C2 as stated: in one evaluation of a deterministic, cacheable tree with an
\* active cache the constructor of every structurally distinct Call
\* sub-configuration of the tree is invoked exactly once.
C2_ExactlyOnce_Original ==
    FreshDeterministicTree
    => \A c \in CallNodes(last.node) : CallsOf(last.log, c) = 1

\* C2 amended: exactly once for every Call sub-configuration that is reached
\* (no enclosing Call has _recursive_ false), never for one that is passed
\* through unevaluated, and whatever the cache held before never more than
\* once.
C2_ExactlyOnce ==
    /\ FreshDeterministicTree
       => \A c \in CallNodes(last.node) :
             CallsOf(last.log, c) =
                IF c \in Reached(last.node, TopRecursive) THEN 1 ELSE 0
    /\ (Evaluated /\ AllDeterministic(last.node) /\ AllCacheable(last.node))
       => \A c \in CallNodes(last.node) : CallsOf(last.log, c) <= 1

\* A sub-configuration that occurs twice in the tree was entered twice and
\* constructed once.
C2_Witness ==
    /\ FreshDeterministicTree
    /\ \E c \in CallNodes(last.node) :
          EntersOf(last.log, c) >= 2 /\ CallsOf(last.log, c) = 1

\* C3: a Call node that is a key of the active cache is answered with the
\* stored pair at once: no child is entered, no constructor is invoked and the
\* cache is not written; the same holds for every nested node that hits.
C3_PrimaryHit ==
    Evaluated =>
      /\ (_is_target(last.node) /\ last.mode = "shared"
          /\ last.node \in DOMAIN last.pre)
         => /\ last.instance = last.pre[last.node].instance
            /\ last.info = last.pre[last.node].info
            /\ cache = last.pre
            /\ last.log = <<Event("enter", last.node), Event("hit", last.node),
                            Event("return", last.node)>>
      /\ \A i \in 2..Len(last.log) :
            (last.log[i].ev = "hit"
             /\ last.log[i - 1] = Event("enter", last.log[i].node))
            => /\ i < Len(last.log)
               /\ last.log[i + 1] = Event("return", last.log[i].node)

\* A node with Call children was answered from the cache, and so was a nested
\* node.
C3_Witness ==
    /\ Evaluated /\ _is_target(last.node) /\ last.node \in DOMAIN last.pre
    /\ Cardinality(CallNodes(last.node)) > 1
    /\ last.info.time_target # NoTime

\* The last call invoked the constructor of its top node, with the shared
\* cache active.
Computed ==
    /\ Evaluated /\ _is_target(last.node) /\ last.mode = "shared"
    /\ CallsOf(last.log, last.node) = 1

Substitute == last.info.deterministic_config

\* C5 as stated: a computed Call node with combined cache_result true is
\* written under the original node; if a substitute exists and differs from
\* the node, a second entry with the same value is written under the
\* substitute, and the substitute-keyed entry has not_deterministic forced
\* true while the original-keyed entry keeps the result metadata.
C5_WritePolicy_Original ==
    (Computed /\ last.info.cache_result)
    => /\ last.node \in DOMAIN cache
       /\ cache[last.node].instance = last.instance
       /\ IF Substitute # None /\ Substitute # last.node
          THEN /\ Substitute \in DOMAIN cache
               /\ cache[Substitute].instance = last.instance
               /\ cache[Substitute].info =
                     [last.info EXCEPT !.not_deterministic = TRUE]
               /\ cache[last.node].info = last.info
          ELSE cache[last.node].info = last.info

\* C5 amended: the entry under the original node is always written; a node
\* with a deterministic target and a substitute is written a second time under
\* the substitute, and there the substitute-keyed entry keeps the result
\* metadata while the original-keyed entry has not_deterministic forced true;
\* a node whose own target is not deterministic is written under the original
\* node only, with the result metadata, and its hash placeholder is no key.
C5_WritePolicy ==
    (Computed /\ last.info.cache_result)
    => /\ last.node \in DOMAIN cache
       /\ cache[last.node].instance = last.instance
       /\ IF ~OwnNotDeterministic(last.node) /\ Substitute # None
          THEN /\ Substitute # last.node
               /\ Substitute \in DOMAIN cache
               /\ cache[Substitute] = InstantiatedNode(last.instance, last.info)
               /\ cache[last.node].info =
                     [last.info EXCEPT !.not_deterministic = TRUE]
               /\ ~last.info.not_deterministic
          ELSE /\ cache[last.node].info = last.info
               /\ Substitute # None
                  => Substitute \notin DOMAIN cache /\ WritesOf(last.log, Substitute) = 0

\* A deterministic node above a not deterministic one was computed and
\* written.
C5_Witness ==
    /\ Computed /\ last.info.cache_result
    /\ ~OwnNotDeterministic(last.node) /\ Substitute # None
    /\ WritesOf(last.log, Substitute) = 1 /\ WritesOf(last.log, last.node) = 1

\* C6 as stated: a Call node whose own target is not deterministic never hits
\* the cache under its literal key; every evaluation invokes its constructor.
C6_NeverHits_Original ==
    Evaluated
    => /\ OwnNotDeterministic(last.node) => CallsOf(last.log, last.node) = 1
       /\ \A i \in 1..Len(last.log) :
             last.log[i].ev = "hit" => ~OwnNotDeterministic(last.log[i].node)

\* C6 amended: a Call node whose own target is not deterministic is cached
\* under its literal key like any other node: evaluated on a cache that lacks
\* the key its constructor is invoked and, combined cache_result being true,
\* the result is stored with not_deterministic true; evaluated on a cache that
\* holds the key, the stored pair is returned and the constructor is not
\* invoked.
C6_NotDeterministicIsCached ==
    (Evaluated /\ OwnNotDeterministic(last.node) /\ last.mode = "shared")
    => /\ last.node \in DOMAIN last.pre
          => /\ CallsOf(last.log, last.node) = 0
             /\ InstantiatedNode(last.instance, last.info) = last.pre[last.node]
       /\ last.node \notin DOMAIN last.pre => CallsOf(last.log, last.node) = 1
       /\ last.info.cache_result
          => /\ last.node \in DOMAIN cache
             /\ cache[last.node] = InstantiatedNode(last.instance, last.info)
             /\ last.info.not_deterministic

\* The same not deterministic configuration was evaluated again with the same
\* cache and hit.
C6_Witness ==
    /\ Evaluated /\ OwnNotDeterministic(last.node) /\ last.again
    /\ last.node \in DOMAIN last.pre
    /\ CallsOf(last.log, last.node) = 0

ConfigurationNodes == UNION {CallNodes(TopNode(c, <<>>)) : c \in Configs}

\* C9: a Call node whose target and descendants are all deterministic
\* evaluates to a NodeInfo with not_deterministic false and no substitute, at
\* any depth and whatever was evaluated on the cache before; the same holds of
\* the entry stored for any such node.
C9_NoCrossContamination ==
    /\ (Evaluated /\ _is_target(last.node) /\ AllDeterministic(last.node))
       => /\ ~last.info.not_deterministic
          /\ last.info.deterministic_config = None
    /\ \A k \in DOMAIN cache \cap ConfigurationNodes :
          AllDeterministic(k)
          => /\ ~cache[k].info.not_deterministic
             /\ cache[k].info.deterministic_config = None

\* A nested deterministic tree was evaluated on a cache that already held
\* entries of not deterministic nodes and of nodes above them.
C9_Witness ==
    /\ Evaluated /\ _is_target(last.node) /\ AllDeterministic(last.node)
    /\ Cardinality(CallNodes(last.node)) > 1
    /\ \E k \in DOMAIN last.pre : OwnNotDeterministic(k)
    /\ \E k \in DOMAIN last.pre : cache[k].info.not_deterministic /\ ~OwnNotDeterministic(k)

\* A reached Call node below which (itself included) a reached Call node has
\* _cache_result_ false.
Blocked(c, r) == \E d \in Reached(c, r) : NoCacheFlag(d)

\* C10: a Call node that has, or has an evaluated descendant that has,
\* cache_result false gets combined cache_result false and no entry under its
\* original or its substitute key; the evaluated descendants whose own
\* combined cache_result is true are in the cache.
C10_CacheResultPropagation ==
    (Evaluated /\ _is_target(last.node) /\ last.mode = "shared")
    => /\ Blocked(last.node, TopRecursive)
          => /\ ~last.info.cache_result
             /\ last.node \notin DOMAIN cache
             /\ WritesOf(last.log, last.node) = 0
             /\ Substitute # None
                => Substitute \notin DOMAIN cache /\ WritesOf(last.log, Substitute) = 0
       /\ \A c \in Reached(last.node, TopRecursive) \ {last.node} :
             IF Blocked(c, "true") THEN c \notin DOMAIN cache
             ELSE c \in DOMAIN cache /\ cache[c].info.cache_result

\* A node that asks to be cached, above a node with _cache_result_ false that
\* is above a not deterministic node, was evaluated; its cacheable descendants
\* were written in this call.
C10_Witness ==
    /\ Evaluated /\ _is_target(last.node) /\ ~NoCacheFlag(last.node)
    /\ Blocked(last.node, TopRecursive)
    /\ Substitute # None
    /\ \E c \in Reached(last.node, TopRecursive) :
          c \notin DOMAIN last.pre /\ WritesOf(last.log, c) = 1

\* The key under which a deterministic node p with not deterministic children
\* is expected: every such child replaced by the hash placeholder of the value
\* that the store holds for it.
RECURSIVE SubstituteItems(_, _)
SubstituteItems(items, store) ==
    IF items = <<>> THEN <<>>
    ELSE LET it == Head(items)
         IN <<IF OwnNotDeterministic(it.node)
              THEN Item(it.key, ResultHashConfig(joblib_hash(store[it.node].instance)))
              ELSE it>> \o SubstituteItems(Tail(items), store)

ExpectedSubstitute(p, store) == DictCfg(SubstituteItems(p.items, store))

\* The last call evaluated a deterministic node directly above a not
\* deterministic one, on a cache that held none of the literal keys of its
\* tree.
NoLiteralHit ==
    /\ Evaluated /\ _is_target(last.node) /\ last.mode = "shared"
    /\ ~OwnNotDeterministic(last.node)
    /\ \E i \in 1..Len(last.node.items) : OwnNotDeterministic(last.node.items[i].node)
    /\ CallNodes(last.node) \cap DOMAIN last.pre = {}

\* C4: when a deterministic node P above a not deterministic child C is
\* evaluated on a cache that holds none of their literal keys (at most
\* substitute-keyed entries of P from earlier evaluations), then P's
\* substitute key is P with C replaced by the hash of C's new value; if the
\* cache holds that key (C's value hashes as before) the stored pair is
\* returned and P's constructor is not invoked; otherwise the key differs from
\* every stored key, P's constructor is invoked and the result is stored under
\* the new key.
C4_SubstituteStability ==
    NoLiteralHit
    => LET S == ExpectedSubstitute(last.node, cache)
       IN /\ S # last.node
          /\ S \in DOMAIN last.pre
             => /\ CallsOf(last.log, last.node) = 0
                /\ InstantiatedNode(last.instance, last.info) = last.pre[S]
                /\ cache[S] = last.pre[S]
          /\ S \notin DOMAIN last.pre
             => /\ CallsOf(last.log, last.node) = 1
                /\ S \in DOMAIN cache
                /\ cache[S] = InstantiatedNode(last.instance, last.info)
                /\ \A k \in DOMAIN last.pre : cache[k] = last.pre[k]

\* The cache held P's substitute-keyed entry only, C produced a value with the
\* same hash again, and P was answered from that entry.
C4_Witness ==
    /\ NoLiteralHit
    /\ DOMAIN last.pre = {ExpectedSubstitute(last.node, cache)}
    /\ CallsOf(last.log, last.node) = 0
    /\ \E c \in CallNodes(last.node) : OwnNotDeterministic(c) /\ CallsOf(last.log, c) = 1

\* The Call nodes of the configurations of SpecPersist.
PersistedNodes == UNION {CallNodes(TopNode(c, <<>>)) : c \in PersistConfigs}

\* A new process has loaded what the old process dumped, with the given
\* constraints, into an empty directory; last.pre is the old process's cache.
Reloaded(constraints) ==
    last.op = "new" /\ last.again /\ last.constraints = constraints

\* C7: after a dump with not_deterministic_constraint and a load into an empty
\* cache, of the entries of a deterministic node P that was computed above a
\* not deterministic descendant the one under P's substitute key is restored,
\* and neither the one under P's original configuration nor the entry of any
\* node whose own target is not deterministic is restored.
C7_DualKeyFilter ==
    Reloaded({"not_deterministic"})
    => \A k \in DOMAIN last.pre \cap PersistedNodes :
          LET v == last.pre[k]
              S == v.info.deterministic_config
          IN /\ OwnNotDeterministic(k) => k \notin DOMAIN cache
             /\ (~OwnNotDeterministic(k) /\ S # None)
                => /\ k \notin DOMAIN cache
                   /\ S \in DOMAIN last.pre
                   /\ S \in DOMAIN cache
                   /\ cache[S] = last.pre[S]
                   /\ cache[S].instance = v.instance

\* The old process had computed P above a not deterministic node; the new
\* process holds entries.
C7_Witness ==
    /\ Reloaded({"not_deterministic"})
    /\ \E k \in DOMAIN last.pre \cap PersistedNodes :
          /\ ~OwnNotDeterministic(k)
          /\ last.pre[k].info.deterministic_config \in DOMAIN cache
    /\ \E k \in DOMAIN last.pre : OwnNotDeterministic(k)

\* ============================================================== failures
\* a constructor that raises, above a completed child
Broken == Call("broken", <<Item("x", Add23)>>)
\* ... between a completed sibling and one that is never evaluated
AddBroken ==
    Call("add", <<Item("a", Consumer), Item("b", Broken), Item("c", AddNested)>>)
\* a target that cannot be resolved, after a completed sibling
Missing == Call("missing", <<Item("x", Add23)>>)
AddMissing == Call("add", <<Item("a", Add23), Item("b", Missing)>>)
\* _recursive_ that is not a bool: on a nested node after a completed sibling,
\* on the top-level config, and on a node that is never evaluated
BadFlag == Call("consumer", <<Item("_recursive_", Scalar("yes")), Item("x", Add23)>>)
AddBadFlag == Call("add", <<Item("a", AddNested), Item("b", BadFlag)>>)
RawBadFlag ==
    Call("consumer", <<Item("_recursive_", Scalar("false")), Item("x", BadFlag)>>)

\* The configurations of SpecErr.
ErrConfigs == {Add23, Consumer, AddBroken, AddMissing, BadFlag, AddBadFlag, RawBadFlag}

NextErr == \E config \in ErrConfigs : Instantiate(config, <<>>, <<>>, "shared")

SpecErr == Init /\ [][NextErr]_vars

\* In the last call a constructor that raises was called, or a target that
\* cannot be resolved was looked for.
FailureOccurred ==
    /\ last.op = "instantiate"
    /\ \E i \in 1..Len(last.log) :
          LET e == last.log[i]
          IN /\ _is_target(e.node)
             /\ \/ e.ev = "call" /\ Get(e.node, "_target_", None).value \in RaisingTargets
                \/ e.ev = "miss" /\ Get(e.node, "_target_", None).value \notin Targets

\* The last call failed in the resolution of a target or in a constructor;
\* the node that failed is the one of the last step.
Failed ==
    /\ last.op = "instantiate"
    /\ last.err \in {"ConstructionError", "InstantiationException"}

FailingNode == last.log[Len(last.log)].node

\* The Call nodes of the tree that contain the node n, n included.
AncestorsOrSelf(n) == {a \in CallNodes(last.node) : n \in CallNodes(a)}

\* The Call nodes that completed in the last call ...
Completed == {last.log[i].node : i \in {j \in 1..Len(last.log) : last.log[j].ev = "return"}}
\* ... and the keys they may be stored under.
CompletedKeys ==
    {k \in DOMAIN cache :
        \E n \in Completed : k = n \/ (n \in DOMAIN cache /\ k = cache[n].info.deterministic_config)}

\* C11: when the resolution of a target or a constructor fails, the error
\* reaches the caller, nothing is written under the failing node or any of its
\* ancestors, every entry that the cache held before is unchanged, and the
\* entries of the nodes that completed before the failure (descendants,
\* earlier siblings) are in the cache and are the only new ones.
C11_FailureWritesNothing ==
    FailureOccurred
    => /\ Failed
       /\ \A a \in AncestorsOrSelf(FailingNode) :
             /\ WritesOf(last.log, a) = 0
             /\ a \notin DOMAIN cache
             /\ a \notin Completed
       /\ \A k \in DOMAIN last.pre : k \in DOMAIN cache /\ cache[k] = last.pre[k]
       /\ \A n \in Completed : n \in DOMAIN cache
       /\ DOMAIN cache \ DOMAIN last.pre \subseteq CompletedKeys
       /\ \A i \in 1..Len(last.log) :
             last.log[i].ev = "write" => last.log[i].node \in CompletedKeys

\* A constructor failed after a sibling above a not deterministic node and a
\* child had completed and were written, on a cache that held entries.
C11_Witness ==
    /\ Failed /\ last.err = "ConstructionError"
    /\ DOMAIN last.pre # {}
    /\ \E n \in Completed : n \notin DOMAIN last.pre /\ WritesOf(last.log, n) = 1
    /\ Cardinality(AncestorsOrSelf(FailingNode)) > 1

\* A node that carries a _recursive_ flag that is not a bool.
Malformed(n) ==
    /\ IsDict(n) /\ HasKey(n, "_recursive_")
    /\ Get(n, "_recursive_", None).value \notin {"true", "false"}

NoCalls == \A i \in 1..Len(last.log) : last.log[i].ev # "call"

\* C12 as stated: if any node of the tree carries a malformed reserved flag,
\* the evaluation fails, and at the failure no constructor of any node of the
\* tree has been invoked.
C12_MalformedFlag_Original ==
    (last.op = "instantiate" /\ \E c \in CallNodes(last.config) : Malformed(c))
    => last.err # "none" /\ NoCalls

\* C12 amended: a _recursive_ flag that is not a boolean makes the evaluation
\* fail, instead of using a default, when the node that carries it is
\* reached; then the constructor of that node and of each of its ancestors has
\* not been invoked, while the nodes evaluated before it have completed and
\* their entries are in the cache; only if the top-level configuration itself
\* carries the flag no constructor at all has been invoked; a malformed flag
\* on a node that is never reached raises no error.
C12_MalformedFlag ==
    last.op = "instantiate"
    => LET top == Malformed(last.config)
           bad == {c \in Reached(last.node, TopRecursive) : Malformed(c)}
       IN /\ (top \/ bad # {}) <=> last.err = "TypeError"
          /\ (last.err = "TypeError" /\ top)
             => FailingNode = last.node /\ NoCalls /\ cache = last.pre
          /\ (last.err = "TypeError" /\ ~top)
             => /\ FailingNode \in bad
                /\ \A a \in AncestorsOrSelf(FailingNode) : CallsOf(last.log, a) = 0
                /\ \A n \in Completed : n \in DOMAIN cache
                /\ \A k \in DOMAIN last.pre : k \in DOMAIN cache /\ cache[k] = last.pre[k]
          /\ (~top /\ bad = {} /\ ~FailureOccurred) => last.err = "none"

\* The flag of a nested node was found malformed after the constructors of an
\* earlier sibling and of its child had been invoked.
C12_Witness ==
    /\ last.op = "instantiate" /\ last.err = "TypeError"
    /\ ~Malformed(last.config)
    /\ Cardinality({i \in 1..Len(last.log) : last.log[i].ev = "call"}) >= 2

\* ========================================================== cache modes
\* The configurations of SpecModes.
ModeConfigs == {AddShared, RandomSource}

\* instantiate with a Cache instance, with cache=None and with DONT_CACHE.
NextModes ==
    \E config \in ModeConfigs, mode \in CacheModes :
        Instantiate(config, <<>>, <<>>, mode)

SpecModes == Init /\ [][NextModes]_vars

\* How often the Call node c occurs in the tree n.
RECURSIVE Occurrences(_, _)
RECURSIVE OccurrencesIn(_, _, _)
OccurrencesIn(items, i, c) ==
    IF i > Len(items) THEN 0
    ELSE Occurrences(IF "node" \in DOMAIN items[i] THEN items[i].node ELSE items[i], c)
         + OccurrencesIn(items, i + 1, c)

Occurrences(n, c) ==
    (IF n = c THEN 1 ELSE 0)
    + (IF n.kind \in {"dict", "list"} THEN OccurrencesIn(n.items, 1, c) ELSE 0)

FullyRecursive ==
    TopRecursive = "true" /\ Reached(last.node, "true") = CallNodes(last.node)

\* C13: with the disabled sentinel no cache is looked up or written (the
\* engine ends with no store of its own and the caller's cache object is not
\* involved), and in a fully recursive tree the constructor of a Call node is
\* invoked once per occurrence.
C13_DisabledIsUncached ==
    (last.op = "instantiate" /\ last.mode = "disabled")
    => /\ \A i \in 1..Len(last.log) : last.log[i].ev \notin {"hit", "miss", "write"}
       /\ last.post = EmptyStore
       /\ FullyRecursive
          => \A c \in CallNodes(last.node) :
                CallsOf(last.log, c) = Occurrences(last.node, c)

\* A tree with a sub-configuration that occurs twice was evaluated with the
\* sentinel, while the caller's cache held that sub-configuration.
C13_Witness ==
    /\ last.op = "instantiate" /\ last.mode = "disabled"
    /\ \E c \in CallNodes(last.node) :
          /\ Occurrences(last.node, c) = 2 /\ CallsOf(last.log, c) = 2
          /\ c \in DOMAIN cache

\* ========================================================== concurrency
\* Two evaluators run instantiate on one InMemoryCache.  An evaluator is the
\* stack of its instantiate_node calls; a step of it runs up to and including
\* its next lookup in the cache, call of a constructor or write to the cache.
\* The configurations of SpecRace are made of Call nodes and primitives.
Frame(node, args, convert0, recursive0) ==
    [node |-> node, args |-> args,
     convert |-> IF HasKey(node, "_convert_")
                 THEN Get(node, "_convert_", None).value ELSE convert0,
     recursive |-> IF HasKey(node, "_recursive_")
                   THEN Get(node, "_recursive_", None).value ELSE recursive0,
     i |-> 1, values |-> <<>>, infos |-> <<>>, pc |-> "lookup",
     info |-> DefaultInfo, key |-> node, result |-> NoResult]

TargetInfo(node) ==
    from_func(Get(node, "_target_", None).value,
              Get(node, "_cache_result_", Scalar("true")).value = "true")

\* hydra.py 193-219 for the frame on top of the stack: the loop over the
\* children from item i on, until a child is to be instantiated (its frame is
\* pushed) or the loop ends (the info is combined and the cache key chosen).
RECURSIVE Advance(_)
Advance(stack) ==
    LET n == Len(stack)
        f == stack[n]
        items == f.node.items
    IN IF f.i > Len(items)
       THEN LET target_info == TargetInfo(f.node)
                pre_info == combine(f.infos, f.node, TRUE, target_info, None)
                dc == pre_info.deterministic_config
                secondary == ~target_info.not_deterministic /\ dc # None
            IN [stack EXCEPT ![n] =
                   [f EXCEPT !.pc = IF secondary THEN "secondary" ELSE "call",
                             !.info = pre_info,
                             !.key = IF secondary THEN dc ELSE f.node]]
       ELSE LET item == items[f.i]
            IN IF item.key \in exclude_keys
               THEN Advance([stack EXCEPT ![n].i = f.i + 1])
               ELSE IF f.recursive # "true"
               THEN Advance([stack EXCEPT ![n] =
                        [f EXCEPT !.i = f.i + 1,
                                  !.values = Append(@, Item(item.key,
                                                 _convert_node(item.node, f.convert)))]])
               ELSE IF ~IsConfig(item.node)
               THEN Advance([stack EXCEPT ![n] =
                        [f EXCEPT !.i = f.i + 1,
                                  !.values = Append(@, Item(item.key, item.node)),
                                  !.infos = Append(@, [key |-> item.key,
                                                       info |-> DefaultInfo])]])
               ELSE Append([stack EXCEPT ![n].pc = "children"],
                           Frame(item.node, <<>>, f.convert, f.recursive))

\* The frame on top of the stack returns pair: to its caller's loop over the
\* children (hydra.py 196-201), or out of instantiate.
Returned(stack, pair) ==
    LET n == Len(stack)
    IN IF n = 1 THEN [stack |-> <<>>, status |-> "done", ret |-> pair]
       ELSE LET f == stack[n - 1]
                item == f.node.items[f.i]
                g == [f EXCEPT !.i = f.i + 1,
                               !.values = Append(@, Item(item.key,
                                              _convert_node(pair.instance, f.convert))),
                               !.infos = Append(@, [key |-> item.key,
                                                    info |-> pair.info])]
            IN [stack |-> Advance(Append(SubSeq(stack, 1, n - 2), g)),
                status |-> "running", ret |-> NoResult]

Top(e) == race.ev[e].stack[Len(race.ev[e].stack)]
At(e, pc) == race.ev[e].status = "running" /\ Top(e).pc = pc
Continue(e, stack) == [race.ev[e] EXCEPT !.stack = stack]
SetTop(e, f) == Continue(e, [race.ev[e].stack EXCEPT ![Len(race.ev[e].stack)] = f])

\* instantiate(config, cache=cache) is called in a thread.
StartEvaluation(e, config) ==
    /\ race.ev[e].status = "idle"
    /\ race' = [race EXCEPT !.ev[e] =
           [stack |-> <<Frame(TopNode(config, <<>>), <<>>,
                              Get(config, "_convert_", Scalar("none")).value,
                              Get(config, "_recursive_", Scalar("true")).value)>>,
            status |-> "running", ret |-> NoResult]]
    /\ UNCHANGED <<cache, disk, last, mem>>

\* hydra.py 186-188: if node in cache: return cache[node]
Lookup(e) ==
    /\ At(e, "lookup")
    /\ race' = [race EXCEPT !.ev[e] =
           IF Contains(cache, Top(e).node)
           THEN Returned(race.ev[e].stack, GetItem(cache, Top(e).node))
           ELSE Continue(e, Advance(race.ev[e].stack))]
    /\ UNCHANGED <<cache, disk, last, mem>>

\* hydra.py 210-214: the lookup of the deterministic_config
SecondaryLookup(e) ==
    /\ At(e, "secondary")
    /\ race' = [race EXCEPT !.ev[e] =
           IF Contains(cache, Top(e).key)
           THEN Returned(race.ev[e].stack, GetItem(cache, Top(e).key))
           ELSE SetTop(e, [Top(e) EXCEPT !.pc = "call"])]
    /\ UNCHANGED <<cache, disk, last, mem>>

\* hydra.py 221-235: the constructor is called and its result wrapped
CallConstructor(e) ==
    /\ At(e, "call")
    /\ LET f == Top(e)
           target == Get(f.node, "_target_", None).value
       IN \E nonce \in NonceChoices(target), t \in Times :
             LET result == ResultOf(TargetInfo(f.node), f.info, f.infos,
                                    Obj(target, f.args, f.values, nonce), t)
             IN race' = [race EXCEPT
                    !.made = @ \cup {[by |-> e, node |-> f.node, key |-> f.key,
                                      result |-> result]},
                    !.ev[e] = IF result.info.cache_result
                              THEN SetTop(e, [f EXCEPT !.pc = "write",
                                                       !.result = result])
                              ELSE Returned(race.ev[e].stack, result)]
    /\ UNCHANGED <<cache, disk, last, mem>>

\* hydra.py 237: cache[cache_key] = result
WriteResult(e) ==
    /\ At(e, "write")
    /\ cache' = SetStore(cache, Top(e).key, Top(e).result)
    /\ race' = [race EXCEPT !.ev[e] =
           IF Top(e).key # Top(e).node
           THEN SetTop(e, [Top(e) EXCEPT !.pc = "write_original"])
           ELSE Returned(race.ev[e].stack, Top(e).result)]
    /\ UNCHANGED <<disk, last, mem>>

\* hydra.py 242-247: cache[node] = result_not_deterministic
WriteOriginal(e) ==
    /\ At(e, "write_original")
    /\ cache' = SetStore(cache, Top(e).node,
                    InstantiatedNode(Top(e).result.instance,
                                     MarkNotDeterministic(Top(e).result.info)))
    /\ race' = [race EXCEPT !.ev[e] = Returned(race.ev[e].stack, Top(e).result)]
    /\ UNCHANGED <<disk, last, mem>>

RaceConfigs == {RandomSource, Consumer}

NextRace ==
    \E e \in Evaluators :
        \/ \E config \in RaceConfigs : StartEvaluation(e, config)
        \/ Lookup(e)
        \/ SecondaryLookup(e)
        \/ CallConstructor(e)
        \/ WriteResult(e)
        \/ WriteOriginal(e)

SpecRace == Init /\ [][NextRace]_vars

\* C14: however the lookups, constructor calls and writes of two evaluators
\* interleave on one in-memory cache, every stored entry is the (value,
\* NodeInfo) pair that one single constructor invocation produced, stored
\* under the key that invocation chose, or, under the original node of that
\* invocation, that pair with not_deterministic marked.
C14_NoCorruptedEntry ==
    \A k \in DOMAIN cache :
        \E m \in race.made :
            \/ k = m.key /\ cache[k] = m.result
            \/ /\ k = m.node /\ m.key # m.node
               /\ cache[k] = InstantiatedNode(m.result.instance,
                                 [m.result.info EXCEPT !.not_deterministic = TRUE])

\* Both evaluators missed on the same key, both invoked the constructor with
\* different results, and both have written and returned.
C14_Witness ==
    /\ \A e \in Evaluators : race.ev[e].status = "done"
    /\ \E m1, m2 \in race.made :
          /\ m1.by # m2.by /\ m1.key = m2.key /\ m1.result # m2.result
          /\ m1.key \in DOMAIN cache

\* ============================================================ sequences
\* a sequence below a mapping without target whose _recursive_ is false
ListHolder ==
    Call("consumer",
         <<Item("x", DictCfg(<<Item("_recursive_", Scalar("false")),
                               Item("xs", ListCfg(<<Add23, Scalar("1")>>))>>))>>)
\* a sequence below a Call whose _recursive_ is false
ConsumerListRaw ==
    Call("consumer", <<Item("_recursive_", Scalar("false")),
                       Item("xs", ListCfg(<<AddNested>>))>>)
\* a top-level mapping without target, called with _recursive_ false
PlainTop ==
    DictCfg(<<Item("_recursive_", Scalar("false")),
              Item("xs", ListCfg(<<RandomSource>>))>>)

\* The configurations of SpecSeq.
SeqConfigs == {ConsumerList, ListHolder, ConsumerListRaw, PlainTop}

NextSeq == \E config \in SeqConfigs : Instantiate(config, <<>>, <<>>, "shared")

SpecSeq == Init /\ [][NextSeq]_vars

\* The sequences of a tree, each with the recursive flag that is in effect at
\* it: the one of the nearest enclosing mapping that sets it, else r0.
RECURSIVE SeqFlags(_, _)
SeqFlags(n, r0) ==
    IF n.kind = "list"
    THEN {[seq |-> n, recursive |-> r0]}
         \cup UNION {SeqFlags(n.items[i], r0) : i \in 1..Len(n.items)}
    ELSE IF n.kind = "dict"
    THEN LET r == IF HasKey(n, "_recursive_")
                  THEN Get(n, "_recursive_", None).value ELSE r0
         IN UNION {SeqFlags(n.items[i].node, r) : i \in 1..Len(n.items)}
    ELSE {}

CallElements(seq) == {seq.items[i] : i \in {j \in 1..Len(seq.items) : _is_target(seq.items[j])}}

\* C15: where the recursive flag in effect at a sequence is false, no element
\* of the sequence is evaluated and no constructor of a Call element is
\* invoked; where it is true and the sequence is evaluated, every element is.
C15_SequenceRecursiveFalse ==
    (last.op = "instantiate" /\ last.err = "none")
    => \A sf \in SeqFlags(last.node, TopRecursive) :
          \A c \in CallElements(sf.seq) :
             IF sf.recursive = "false"
             THEN EntersOf(last.log, c) = 0 /\ CallsOf(last.log, c) = 0
             ELSE EntersOf(last.log, sf.seq) > 0 => EntersOf(last.log, c) > 0

\* ============================================================ key order
\* {_target_: add, b: 3, a: 2}: Add23 with its keys inserted in another order
Add32 == Call("add", <<Item("b", Scalar("3")), Item("a", Scalar("2"))>>)
\* ConsumerList with the elements of its sequence in another order
ConsumerListReversed == Call("consumer", <<Item("xs", ListCfg(<<Add23, RandomSource>>))>>)

\* The configurations of SpecOrder.
OrderConfigs == {Add23, Add32, ConsumerList, ConsumerListReversed}

NextOrder == \E config \in OrderConfigs : Instantiate(config, <<>>, <<>>, "shared")

SpecOrder == Init /\ [][NextOrder]_vars

\* Two nodes have the same content: mappings with the same keys and the same
\* content under every key, in whatever order; sequences with the same
\* content position by position.
RECURSIVE SameContent(_, _)
SameContent(a, b) ==
    IF a.kind = "dict" /\ b.kind = "dict"
    THEN /\ {a.items[i].key : i \in 1..Len(a.items)}
            = {b.items[i].key : i \in 1..Len(b.items)}
         /\ Len(a.items) = Len(b.items)
         /\ \A i \in 1..Len(a.items) :
               SameContent(a.items[i].node, Get(b, a.items[i].key, None))
    ELSE IF a.kind = "list" /\ b.kind = "list"
    THEN /\ Len(a.items) = Len(b.items)
         /\ \A i \in 1..Len(a.items) : SameContent(a.items[i], b.items[i])
    ELSE a = b

\* C16: a Call node whose content is that of a stored key, up to the insertion
\* order of mapping keys, hits that entry: its constructor is not invoked and
\* no entry is added; a node that differs from every stored key in content,
\* be it only in the order of a sequence, misses.
C16_StructuralKeys ==
    (Evaluated /\ _is_target(last.node) /\ last.mode = "shared")
    => IF \E k \in DOMAIN last.pre : SameContent(k, last.node)
       THEN CallsOf(last.log, last.node) = 0 /\ DOMAIN cache = DOMAIN last.pre
       ELSE CallsOf(last.log, last.node) = 1

\* ================================================= positional arguments
\* The configurations of SpecArgs and the *args of the caller.
ArgConfigs == {AddNested, ConsumerList}
ArgChoices == {<<>>, <<Scalar("9")>>}

NextArgs ==
    \E config \in ArgConfigs, args \in ArgChoices :
        Instantiate(config, args, <<>>, "shared")

SpecArgs == Init /\ [][NextArgs]_vars

CallEvents == {i \in 1..Len(last.log) : last.log[i].ev = "call"}

\* C17: the positional arguments of the caller are handed to the constructor
\* of the top-level Call node only; the constructor of every nested Call node,
\* in a mapping or in a sequence, is invoked without positional arguments.
C17_ArgsAtTopOnly ==
    last.op = "instantiate"
    => \A i \in CallEvents :
          last.log[i].args =
             IF last.log[i].node = last.node THEN last.args ELSE <<>>

\* A call with a positional argument has invoked the constructors of the top
\* node and of the nodes nested in its sequence.
C17_Witness ==
    /\ Evaluated /\ last.args # <<>>
    /\ CallsOf(last.log, last.node) = 1
    /\ Cardinality(CallEvents) = 3
    /\ \E sf \in SeqFlags(last.node, TopRecursive) :
          \A c \in CallElements(sf.seq) : CallsOf(last.log, c) = 1

\* ================================================= objects and references
\* Configurations as the objects they are in the process.  mem.objs[a] is the
\* container (DictConfig or ListConfig) at address a: a record like a node,
\* whose children are primitives or references to other containers.  An
\* in-place update changes mem.objs[a]; a copy appends new objects.
Ref(a) == [kind |-> "ref", addr |-> a]
IsRef(c) == c.kind = "ref"

\* OmegaConf.create / OmegaConf.structured: new objects for a tree given as a
\* value; the reference to its root (a primitive stays a value).
RECURSIVE Alloc(_, _)
RECURSIVE AllocItems(_, _, _, _, _)
Alloc(objs, node) ==
    IF ~IsConfig(node) THEN [objs |-> objs, cell |-> node]
    ELSE LET r == AllocItems(objs, node.items, 1, <<>>, IsDict(node))
         IN [objs |-> Append(r.objs, [kind |-> node.kind, items |-> r.items]),
             cell |-> Ref(Len(r.objs) + 1)]

AllocItems(objs, items, i, acc, keyed) ==
    IF i > Len(items) THEN [objs |-> objs, items |-> acc]
    ELSE LET r == Alloc(objs, IF keyed THEN items[i].node ELSE items[i])
         IN AllocItems(r.objs, items, i + 1,
                Append(acc, IF keyed THEN Item(items[i].key, r.cell) ELSE r.cell),
                keyed)

\* The structure that a reference stands for: what ==, str() and hash() of a
\* config see.
RECURSIVE Deref(_, _)
Deref(objs, c) ==
    IF ~IsRef(c) THEN c
    ELSE LET o == objs[c.addr]
         IN IF o.kind = "dict"
            THEN DictCfg([i \in 1..Len(o.items) |->
                     Item(o.items[i].key, Deref(objs, o.items[i].node))])
            ELSE ListCfg([i \in 1..Len(o.items) |-> Deref(objs, o.items[i])])

\* The addresses of the objects of a tree.
RECURSIVE Reach(_, _)
Reach(objs, c) ==
    IF ~IsRef(c) THEN {}
    ELSE LET o == objs[c.addr]
         IN {c.addr} \cup UNION {Reach(objs, IF o.kind = "dict" THEN o.items[i].node
                                              ELSE o.items[i]) :
                                    i \in 1..Len(o.items)}

\* mutant: the same object instead of a copy
deepcopy_Alias(objs, c) == [objs |-> objs, cell |-> c]
\* copy.deepcopy(config): new objects all the way down.
deepcopy(objs, c) == Alloc(objs, Deref(objs, c))

\* copy.copy(parent_config): a new container with a content of its own, whose
\* container children are the children of the original.
ShallowCopy(objs, c) ==
    [objs |-> Append(objs, objs[c.addr]), cell |-> Ref(Len(objs) + 1)]

\* config[k] = value, in place; a config assigned into a config is copied.
SetItemAt(objs, a, k, c) ==
    LET r == deepcopy(objs, c)
    IN [r.objs EXCEPT ![a] = IF @.kind = "list" THEN SetIndex(@, k, r.cell)
                             ELSE SetItem(@, k, r.cell)]

\* config.pop(key, default), in place.
PopAt(objs, a, k) == [objs EXCEPT ![a] = Pop(@, k)]

\* OmegaConf.merge(config, kwargs): a copy of config with the overrides set.
RECURSIVE MergeInto(_, _, _)
MergeInto(objs, a, kwargs) ==
    IF kwargs = <<>> THEN objs
    ELSE MergeInto(SetItemAt(objs, a, Head(kwargs).key, Head(kwargs).node), a,
                   Tail(kwargs))

MergeAt(objs, c, kwargs) ==
    LET r == deepcopy(objs, c)
    IN [objs |-> MergeInto(r.objs, r.cell.addr, kwargs), cell |-> r.cell]

\* The store of an InMemoryCache as a Python dict: found by structure, and an
\* entry keeps the key object it was first stored with.
Entry(a, value) == [obj |-> a, instance |-> value.instance, info |-> value.info]

PutAt(store, objs, c, value) ==
    LET k == Deref(objs, c)
    IN SetStore(store, k,
           Entry(IF Contains(store, k) THEN store[k].obj ELSE c.addr, value))

Done(instance, info, objs, store, err) ==
    [instance |-> instance, info |-> info, objs |-> objs, store |-> store,
     err |-> err]

RaisedAt(objs, store, err) == Done(None, DefaultInfo, objs, store, err)

\* InstantiatedNodeInfo.combine on objects: the loop over infos.items() that
\* builds the deterministic_config (hydra_utils.py 66-74).
RECURSIVE CombineConfigsAt(_, _, _, _, _)
CombineConfigsAt(infos, i, parent_config, dc, objs) ==
    IF i > Len(infos) THEN [dc |-> dc, objs |-> objs]
    ELSE LET child == infos[i].info.deterministic_config
         IN IF child # None
            THEN LET r == IF dc = None THEN ShallowCopy(objs, parent_config)
                          ELSE [objs |-> objs, cell |-> dc]
                 IN CombineConfigsAt(infos, i + 1, parent_config, r.cell,
                        SetItemAt(r.objs, r.cell.addr, infos[i].key, child))
            ELSE CombineConfigsAt(infos, i + 1, parent_config, dc, objs)

combineAt(infos, parent_config, has_target, target_info, deterministic_config, objs) ==
    LET r == IF deterministic_config = None
             THEN CombineConfigsAt(infos, 1, parent_config, None, objs)
             ELSE [dc |-> deterministic_config, objs |-> objs]
        nd == IF has_target THEN target_info.not_deterministic ELSE FALSE
        cr == AllCacheResult(infos) /\ (has_target => target_info.cache_result)
    IN [info |-> InstantiatedNodeInfo(nd, cr, r.dc, NoTime), objs |-> r.objs]

\* hydra.py 221-247 on objects.  The measured time is left out: it touches no
\* object.
CallReturnedAt(c, cache_key, target_info, pre, p, result_instance) ==
    LET r == IF target_info.not_deterministic
             THEN LET h == Alloc(p.objs,
                               ResultHashConfig(joblib_hash(result_instance)))
                  IN combineAt(p.infos, None, TRUE, target_info, h.cell, h.objs)
             ELSE pre
        result == InstantiatedNode(result_instance, r.info)
        result_not_deterministic ==
            InstantiatedNode(result_instance, MarkNotDeterministic(r.info))
        written == r.info.cache_result
        store1 == IF written THEN PutAt(p.store, r.objs, cache_key, result)
                  ELSE p.store
        store2 == IF written /\ Deref(r.objs, cache_key) # Deref(r.objs, c)
                  THEN PutAt(store1, r.objs, c, result_not_deterministic)
                  ELSE store1
    IN Done(result_instance, r.info, r.objs, store2, "none")

\* hydra.py 203-247 on objects.
CallTargetAt(c, args, target, target_info, p) ==
    LET nd == target_info.not_deterministic
        pre == IF nd THEN [info |-> DefaultInfo, objs |-> p.objs]
               ELSE combineAt(p.infos, c, TRUE, target_info, None, p.objs)
        dc == pre.info.deterministic_config
        secondary == ~nd /\ dc # None
        found == secondary /\ Contains(p.store, Deref(pre.objs, dc))
        cache_key == IF secondary THEN dc ELSE c
    IN IF p.err # "none" THEN {RaisedAt(p.objs, p.store, p.err)}
       ELSE IF found
       THEN {Done(p.store[Deref(pre.objs, dc)].instance,
                  p.store[Deref(pre.objs, dc)].info, pre.objs, p.store, "none")}
       ELSE IF target \in RaisingTargets
       THEN {RaisedAt(pre.objs, p.store, "ConstructionError")}
       ELSE {CallReturnedAt(c, cache_key, target_info, pre, p,
                            Obj(target, args, p.values, nonce)) :
                 nonce \in NonceChoices(target)}

RECURSIVE instantiate_node_at(_, _, _, _, _, _)
RECURSIVE EvalChildrenAt(_, _, _, _, _, _)

EvalChildAt(item, as_call, convert, recursive, p) ==
    IF p.err # "none" THEN {p}
    ELSE IF as_call /\ item.key \in exclude_keys THEN {p}
    ELSE IF as_call /\ recursive # "true"
    THEN {[p EXCEPT !.values = Append(@, Item(item.key,
                        _convert_node(Deref(p.objs, item.node), convert)))]}
    ELSE {[values |-> Append(p.values, Item(item.key,
                         IF as_call THEN _convert_node(o.instance, convert)
                         ELSE o.instance)),
           infos |-> Append(p.infos, [key |-> item.key, info |-> o.info]),
           objs |-> o.objs, store |-> o.store, err |-> o.err] :
             o \in instantiate_node_at(item.node, <<>>, convert, recursive,
                                       p.objs, p.store)}

EvalChildrenAt(items, i, as_call, convert, recursive, acc) ==
    IF i > Len(items) THEN acc
    ELSE EvalChildrenAt(items, i + 1, as_call, convert, recursive,
             UNION {EvalChildAt(items[i], as_call, convert, recursive, p) :
                        p \in acc})

StartAt(objs, store) ==
    {[values |-> <<>>, infos |-> <<>>, objs |-> objs, store |-> store,
      err |-> "none"]}

\* hydra.py 138-278 on objects: c is a primitive or the reference to the node.
instantiate_node_at(c, args, convert0, recursive0, objs, store) ==
    LET node == Deref(objs, c)
        convert == IF IsDict(node) /\ HasKey(node, "_convert_")
                   THEN Get(node, "_convert_", None).value ELSE convert0
        recursive == IF IsDict(node) /\ HasKey(node, "_recursive_")
                     THEN Get(node, "_recursive_", None).value ELSE recursive0
        Container(p, kind, plain, values) ==
            IF p.err # "none" THEN RaisedAt(p.objs, p.store, p.err)
            ELSE LET r == combineAt(p.infos, c, FALSE, DefaultInfo, None, p.objs)
                 IN Done(IF convert \in {"all", "partial"}
                         THEN [kind |-> plain, items |-> values]
                         ELSE to_config([kind |-> kind, items |-> values]),
                         r.info, r.objs, p.store, "none")
    IN IF node.kind = "none" THEN {Done(None, DefaultInfo, objs, store, "none")}
       ELSE IF ~IsConfig(node)
       THEN {Done(node, DefaultInfo, objs, store, "none")}
       ELSE IF ~IsBool(recursive)
       THEN {RaisedAt(objs, store, "TypeError")}
       ELSE IF IsList(node)
       THEN {Container(p, "list", "pylist", Values(p)) :
                p \in EvalChildrenAt(IndexItems(objs[c.addr].items), 1, FALSE,
                                     convert, recursive, StartAt(objs, store))}
       ELSE IF _is_target(node)
       THEN IF Contains(store, node)
            THEN {Done(store[node].instance, store[node].info, objs, store, "none")}
            ELSE LET target == Get(node, "_target_", None).value
                     cr == Get(node, "_cache_result_", Scalar("true")).value = "true"
                     target_info == from_func(target, cr)
                 IN IF target \notin Targets
                    THEN {RaisedAt(objs, store, "InstantiationException")}
                    ELSE UNION {CallTargetAt(c, args, target, target_info, p) :
                                   p \in EvalChildrenAt(objs[c.addr].items, 1, TRUE,
                                                        convert, recursive,
                                                        StartAt(objs, store))}
       ELSE {Container(p, "dict", "pydict", p.values) :
                p \in EvalChildrenAt(objs[c.addr].items, 1, FALSE, convert,
                                     recursive, StartAt(objs, store))}

\* hydra.py 93-119 on objects: config is the reference to the caller's tree.
instantiate_at(config, args, kwargs, objs, store) ==
    LET config_copy == deepcopy(objs, config)
        merged == IF kwargs # <<>>
                  THEN MergeAt(config_copy.objs, config_copy.cell, kwargs)
                  ELSE config_copy
        top == Deref(merged.objs, merged.cell)
        _recursive_ == Get(top, "_recursive_", Scalar("true")).value
        _convert_ == Get(top, "_convert_", Scalar("none")).value
        popped == PopAt(PopAt(merged.objs, merged.cell.addr, "_recursive_"),
                        merged.cell.addr, "_convert_")
    IN instantiate_node_at(merged.cell, args, _convert_, _recursive_, popped,
                           store)

\* Calls of instantiate in one behaviour, where every call adds to the state
\* (new objects, new files).
MaxCalls == 2

\* a Call with a reserved flag at the top, above a not deterministic node
ConsumerFlagged ==
    Call("consumer", <<Item("_recursive_", Scalar("true")), Item("x", RandomSource)>>)

ObjectConfigs == {ConsumerFlagged, ConsumerRaw, ConsumerList, AddBroken}
\* **kwargs of the caller: none, or one that adds a key
ObjectKwargs == {<<>>, <<Item("y", Scalar("1"))>>}

Ran(config, kwargs, c, o) ==
    [objs |-> o.objs, store |-> o.store, op |-> "instantiate", input |-> c,
     config |-> config, kwargs |-> kwargs, info |-> o.info, err |-> o.err,
     calls |-> mem.calls + 1]

\* The caller builds a configuration and passes it to instantiate.
InstantiateNew(config, kwargs) ==
    /\ mem.calls < MaxCalls
    /\ LET a == Alloc(mem.objs, config)
       IN \E o \in instantiate_at(a.cell, <<>>, kwargs, a.objs, mem.store) :
             mem' = Ran(config, kwargs, a.cell, o)
    /\ UNCHANGED <<cache, disk, last, race>>

\* The caller passes the configuration of its previous call again, as the
\* object is now.
InstantiateSame(kwargs) ==
    /\ mem.calls < MaxCalls
    /\ mem.op = "instantiate"
    /\ \E o \in instantiate_at(mem.input, <<>>, kwargs, mem.objs, mem.store) :
          mem' = Ran(Deref(mem.objs, mem.input), kwargs, mem.input, o)
    /\ UNCHANGED <<cache, disk, last, race>>

NextObjects ==
    \/ \E config \in ObjectConfigs, kwargs \in ObjectKwargs :
          InstantiateNew(config, kwargs)
    \/ \E kwargs \in ObjectKwargs : InstantiateSame(kwargs)

SpecObjects == Init /\ [][NextObjects]_vars

\* The objects that the cache refers to: its key objects and the substitutes
\* in its metadata.
CacheObjects ==
    UNION {{mem.store[k].obj} \cup
           Reach(mem.objs, mem.store[k].info.deterministic_config) :
              k \in DOMAIN mem.store}

\* C18: after instantiate has returned or failed, the tree that the caller
\* passed has the structure it had before the call (reserved flags still
\* there, no override merged in, no sub-tree replaced by a placeholder), every
\* key object of the cache still has the structure it was stored with, and no
\* substitute or key shares an object with the caller's tree.
C18_InputNotMutated ==
    mem.op = "instantiate"
    => /\ Deref(mem.objs, mem.input) = mem.config
       /\ \A k \in DOMAIN mem.store :
             Deref(mem.objs, Ref(mem.store[k].obj)) = k
       /\ Reach(mem.objs, mem.info.deterministic_config)
             \cap Reach(mem.objs, mem.input) = {}
       /\ CacheObjects \cap Reach(mem.objs, mem.input) = {}

\* A call with an override on a tree with a reserved flag has built a
\* substitute and stored results under it and under the original key.
C18_Witness ==
    /\ mem.op = "instantiate" /\ mem.err = "none"
    /\ HasKey(mem.config, "_recursive_")
    /\ mem.kwargs # <<>>
    /\ mem.info.deterministic_config # None
    /\ Contains(mem.store, Deref(mem.objs, mem.info.deterministic_config))
    /\ Cardinality(DOMAIN mem.store) >= 3

\* ============================================== command-line entry point
\* The constraints of the dump in main (main.py 96-106).  The option
\* --exclude_persisting_targets is left at its default, the empty string,
\* which names no target.
MainConstraints == {"exclude_targets", "not_deterministic", "min_time"}

\* instantiate(config=config, _convert_='partial', cache=cache)
MainKwargs == <<Item("_convert_", Scalar("partial"))>>

\* mutant: the cache is dumped only after an evaluation that succeeded
finally_dump_OnSuccess(store, dir, err) ==
    IF err = "none" THEN dump(store, dir, MainConstraints, FALSE) ELSE dir
\* main.py 93-107: the finally block, for a DumpableInMemoryCache.
finally_dump(store, dir, err) == dump(store, dir, MainConstraints, FALSE)

\* One run of main, a new process.  persist_cache: the cache is a
\* DumpableInMemoryCache, loaded from the directory and dumped at the end;
\* otherwise it is an InMemoryCache.
Main(config, persist_cache) ==
    /\ mem.calls < MaxCalls
    /\ mem' = [mem EXCEPT !.calls = @ + 1]
    /\ LET store0 == IF persist_cache THEN load(EmptyStore, disk, {})
                     ELSE EmptyStore
       IN \E o \in instantiate(config, <<>>, MainKwargs, "shared", store0) :
             /\ cache' = o.cache
             /\ disk' = IF persist_cache THEN finally_dump(o.cache, disk, o.err)
                        ELSE disk
             /\ last' = [op |-> "main", config |-> config,
                         node |-> TopNode(config, MainKwargs), args |-> <<>>,
                         mode |-> IF persist_cache THEN "dumpable" ELSE "memory",
                         instance |-> o.instance, info |-> o.info, log |-> o.log,
                         pre |-> store0, post |-> o.cache, err |-> o.err,
                         constraints |-> MainConstraints, overwrite |-> FALSE,
                         again |-> FALSE]
    /\ UNCHANGED race

\* a constructor fails after a node above a not deterministic one and a node
\* that is not to be cached have completed
Add23NoCache ==
    Call("add", <<Item("_cache_result_", Scalar("false")), Item("a", Scalar("2")),
                  Item("b", Scalar("3"))>>)
AddBrokenLast ==
    Call("add", <<Item("a", Consumer), Item("b", Add23NoCache), Item("c", Broken)>>)

MainConfigs == {Consumer, AddBrokenLast}

\* Runs of main with --persist_cache.
NextMain == \E config \in MainConfigs : Main(config, TRUE)

SpecMain == Init /\ [][NextMain]_vars

\* The keys of the Call nodes that completed in the last run with a combined
\* cache_result of true.
CacheableCompleted == {n \in Completed : AllCacheable(n)}
CacheableCompletedKeys ==
    {k \in DOMAIN cache :
        \E n \in CacheableCompleted :
            k = n \/ (n \in DOMAIN cache /\ k = cache[n].info.deterministic_config)}

\* The node n has an entry: under its own key, or under the key that its
\* evaluation found in the cache (its substitute, when the entry under its own
\* key was not loaded).
HasEntry(n) ==
    \/ n \in DOMAIN cache
    \/ \E i \in 1..(Len(last.log) - 1) :
          /\ last.log[i].ev = "hit" /\ last.log[i].node \in DOMAIN cache
          /\ last.log[i + 1] = Event("return", n)

\* The entries that main's dump writes: those that no constraint objects to.
Dumpable == {k \in DOMAIN cache : ~Skipped(MainConstraints, k, cache[k])}

MainFailed ==
    /\ last.op = "main" /\ last.mode = "dumpable"
    /\ last.err = "ConstructionError"

\* C19: when the evaluation in main aborts with a construction error, the
\* cache holds an entry for every Call node that completed before with a
\* combined cache_result of true, these are the only entries the run added,
\* and the dump of the finally block has run over the cache: every entry that
\* no constraint objects to has its files in the directory, the new files are
\* those of such entries, and no file that existed was changed.
C19_PartialProgressDumped ==
    [][MainFailed'
       => /\ \A n \in CacheableCompleted' : HasEntry(n)'
          /\ DOMAIN cache' \ DOMAIN last'.pre \subseteq CacheableCompletedKeys'
          /\ \A k \in Dumpable' :
                /\ FileName(k) \in DOMAIN disk'
                /\ FileName(k) \notin DOMAIN disk
                      => disk'[FileName(k)] = [yaml |-> to_yaml(k), pkl |-> cache'[k]]
          /\ \A f \in DOMAIN disk' \ DOMAIN disk :
                \E k \in Dumpable' : f = FileName(k)
          /\ \A f \in DOMAIN disk : f \in DOMAIN disk' /\ disk'[f] = disk[f]]_vars

\* A run that failed has left in the directory an entry that it computed
\* before the failure, beside a completed node that is not cached.
C19_Witness ==
    /\ MainFailed
    /\ \E n \in Completed : ~AllCacheable(n) /\ n \notin DOMAIN cache
    /\ \E k \in Dumpable :
          /\ k \notin DOMAIN last.pre
          /\ FileName(k) \in DOMAIN disk
          /\ disk[FileName(k)].pkl = cache[k]

\* ============================================================ overwrite
\* A new process with a cache that is not loaded: DumpableInMemoryCache()
\* without a directory, which is given to dump later.
NewEmptyCache ==
    /\ cache # EmptyStore
    /\ cache' = EmptyStore
    /\ last' = [NoOp EXCEPT !.op = "new", !.pre = cache]
    /\ UNCHANGED <<disk, race, mem>>

DumpConfigs == {Add23, RandomSource}

DumpConstraintChoices == {{}, {"not_deterministic"}}

NextDump ==
    \/ \E config \in DumpConfigs : Instantiate(config, <<>>, <<>>, "shared")
    \/ \E cs \in DumpConstraintChoices, overwrite \in BOOLEAN : Dump(cs, overwrite)
    \/ NewEmptyCache

SpecDump == Init /\ [][NextDump]_vars

\* The entries of the cache that the last dump did not skip.
Kept == {k \in DOMAIN cache : ~Skipped(last.constraints, k, cache[k])}

\* C20: a dump with overwrite false leaves every file that was in the
\* directory as it was, the key artifact and the value artifact; a file is
\* replaced only by a dump with overwrite true, by the entry of the cache with
\* its key, and such a dump replaces the file of every entry it does not skip.
C20_NoOverwrite ==
    last.op = "dump"
    => /\ \A f \in DOMAIN last.post : f \in DOMAIN disk
       /\ ~last.overwrite => \A f \in DOMAIN last.post : disk[f] = last.post[f]
       /\ last.overwrite
             => /\ \A f \in DOMAIN last.post :
                      disk[f] # last.post[f] => \E k \in Kept : FileName(k) = f
                /\ \A k \in Kept :
                      disk[FileName(k)] = [yaml |-> to_yaml(k), pkl |-> cache[k]]

\* A dump with overwrite false met the file of a key for which the cache
\* holds another value, and did not skip the entry.
C20_Witness ==
    /\ last.op = "dump" /\ ~last.overwrite
    /\ \E k \in Kept :
          /\ FileName(k) \in DOMAIN last.post
          /\ last.post[FileName(k)].pkl # cache[k]

\* ========================================================== constraints
\* cache.load(directory, constraints) into the cache as it is.
Load(constraints) ==
    /\ cache' = load(cache, disk, constraints)
    /\ last' = [NoOp EXCEPT !.op = "load", !.pre = cache,
                            !.constraints = constraints]
    /\ UNCHANGED <<disk, race, mem>>

TransferConfigs == {Add23, RandomSource}

TransferConstraints == {{}, {"not_deterministic"}, {"not_deterministic", "min_time"}}

NextTransfer ==
    \/ \E config \in TransferConfigs : Instantiate(config, <<>>, <<>>, "shared")
    \/ \E cs \in TransferConstraints, overwrite \in BOOLEAN : Dump(cs, overwrite)
    \/ \E cs \in TransferConstraints : Load(cs)
    \/ NewEmptyCache

SpecTransfer == Init /\ [][NextTransfer]_vars

\* At least one of the constraints of the last load or dump returns a reason
\* for the entry.
Objected(k, v) == \E c \in last.constraints : Constraint(c, k, v)

FileOf(k) == [yaml |-> to_yaml(k), pkl |-> cache[k]]

\* The file of the key k is as it was before the last dump.
FileUntouched(k) ==
    /\ FileName(k) \in DOMAIN disk <=> FileName(k) \in DOMAIN last.post
    /\ FileName(k) \in DOMAIN disk => disk[FileName(k)] = last.post[FileName(k)]

\* The load has put the entry of the file f into the cache, or has left the
\* cache as it was at the key of f.
LoadTransfers(f) ==
    LET k == from_yaml(disk[f].yaml)
    IN IF ~Objected(k, disk[f].pkl)
       THEN k \in DOMAIN cache /\ cache[k] = disk[f].pkl
       ELSE /\ k \in DOMAIN cache <=> k \in DOMAIN last.pre
            /\ k \in DOMAIN cache => cache[k] = last.pre[k]

\* C21 as stated: load and dump transfer an entry if and only if no constraint
\* returns a reason for it, whatever the verdict on the other entries.
C21_ConstraintsFilter_Original ==
    /\ last.op = "dump"
          => \A k \in DOMAIN cache :
                IF ~Objected(k, cache[k])
                THEN FileName(k) \in DOMAIN disk /\ disk[FileName(k)] = FileOf(k)
                ELSE FileUntouched(k)
    /\ last.op = "load" => \A f \in DOMAIN disk : LoadTransfers(f)

\* C21: load transfers an entry if and only if no constraint returns a reason
\* for it; dump transfers an entry if and only if no constraint returns a
\* reason for it and its file is not in the directory or overwrite is true;
\* an entry that is not transferred leaves its destination as it was, and the
\* verdict on one entry does not depend on the other entries.
C21_ConstraintsFilter ==
    /\ last.op = "dump"
          => \A k \in DOMAIN cache :
                IF /\ ~Objected(k, cache[k])
                   /\ last.overwrite \/ FileName(k) \notin DOMAIN last.post
                THEN FileName(k) \in DOMAIN disk /\ disk[FileName(k)] = FileOf(k)
                ELSE FileUntouched(k)
    /\ last.op = "load" => \A f \in DOMAIN disk : LoadTransfers(f)

\* A dump with two constraints has skipped an entry that only one of them
\* objects to and has written another entry.
C21_Witness ==
    /\ last.op = "dump" /\ Cardinality(last.constraints) = 2
    /\ \E k \in DOMAIN cache :
          /\ Objected(k, cache[k])
          /\ \E c \in last.constraints : ~Constraint(c, k, cache[k])
          /\ FileName(k) \notin DOMAIN disk
    /\ \E k \in DOMAIN cache :
          /\ ~Objected(k, cache[k])
          /\ FileName(k) \notin DOMAIN last.post
          /\ disk[FileName(k)] = FileOf(k)

\* ============================================================== min_time
\* The entries of the cache that the other constraints of main let through.
TimeDecides == {k \in DOMAIN cache : ~cache[k].info.not_deterministic}

\* C22: after a run of main with a dumpable cache, of the entries that the
\* other constraints let through exactly those with a measured time of at
\* least MinTime are in the directory: an entry whose time equals MinTime is
\* dumped, an entry with a smaller or no time is not.
C22_AtLeastMinTime ==
    (last.op = "main" /\ last.mode = "dumpable")
    => \A k \in TimeDecides :
          FileName(k) \in DOMAIN disk
             <=> /\ cache[k].info.time_target # NoTime
                 /\ cache[k].info.time_target[1] >= MinTime

\* ========================================================== depth first
DepthConfigs == {AddNested, AddNoCache}

NextDepth == \E config \in DepthConfigs : Instantiate(config, <<>>, <<>>, "shared")

SpecDepth == Init /\ [][NextDepth]_vars

\* The Call nodes among the entries of the Call node n, in mapping order.
RECURSIVE CallItems(_)
CallItems(items) ==
    IF items = <<>> THEN <<>>
    ELSE IF Head(items).key \notin exclude_keys /\ _is_target(Head(items).node)
    THEN <<Head(items).node>> \o CallItems(Tail(items))
    ELSE CallItems(Tail(items))

\* The step at which the evaluation that calls the constructor at step i
\* entered its node.
EnterOf(i) ==
    CHOOSE j \in 1..i :
        /\ last.log[j] = Event("enter", last.log[i].node)
        /\ \A m \in (j + 1)..i : last.log[m] # Event("enter", last.log[i].node)

\* The child c has its entry in the cache before step i.
StoredBefore(c, i) ==
    \/ c \in DOMAIN last.pre
    \/ \E w \in 1..(i - 1) : last.log[w] = Event("write", c)

\* C23: when the constructor of a Call node is invoked, every child Call node
\* has been entered and has returned since the node was entered, a child has
\* returned before the next child in mapping order is entered, and every
\* child with a combined cache_result of true has its entry in the cache; so
\* no entry of a node is written before the entries of its children.
C23_DepthFirst ==
    last.op = "instantiate"
    => \A i \in CallEvents :
          LET n == last.log[i].node
              j == EnterOf(i)
              kids == CallItems(n.items)
              Steps(ev, c) == {m \in (j + 1)..(i - 1) : last.log[m] = Event(ev, c)}
          IN /\ \A a \in 1..Len(kids) :
                   /\ \E e \in Steps("enter", kids[a]), r \in Steps("return", kids[a]) :
                         e < r
                   /\ AllCacheable(kids[a]) => StoredBefore(kids[a], i)
                   /\ \A b \in (a + 1)..Len(kids) :
                         \E r \in Steps("return", kids[a]), e \in Steps("enter", kids[b]) :
                            r < e
             /\ \A w \in (i + 1)..Len(last.log) :
                   (last.log[w].ev = "write" /\ AllCacheable(n))
                      => \A a \in 1..Len(kids) :
                            AllCacheable(kids[a]) => StoredBefore(kids[a], w)

\* The constructor of a node with two child Call nodes was invoked, after
\* both were computed in this evaluation, and the results were written.
C23_Witness ==
    /\ Evaluated
    /\ \E i \in CallEvents :
          LET kids == CallItems(last.log[i].node.items)
          IN /\ Len(kids) = 2 /\ kids[1] # kids[2]
             /\ \A a \in 1..2 : CallsOf(last.log, kids[a]) = 1
             /\ WritesOf(last.log, kids[2]) = 1

\* ======================================================== recursive false
\* a Call with _recursive_ false above a not deterministic node
ConsumerRawSource ==
    Call("consumer", <<Item("_recursive_", Scalar("false")), Item("x", RandomSource)>>)
\* a not deterministic target with _recursive_ false
RandomSourceRaw ==
    Call("random_source", <<Item("_recursive_", Scalar("false")), Item("x", Add23)>>)

\* a mapping without target that hands _recursive_ false and a convert mode
\* down to a Call
PlainRaw ==
    DictCfg(<<Item("_recursive_", Scalar("false")),
              Item("_convert_", Scalar("partial")), Item("x", AddNested)>>)

\* The configurations of SpecRaw.
RawConfigs == {Add23, AddRaw, ConsumerRawSource, RandomSourceRaw, PlainRaw}

NextRaw == \E config \in RawConfigs : Instantiate(config, <<>>, <<>>, "shared")

SpecRaw == Init /\ [][NextRaw]_vars

\* The Call nodes below n that are evaluated with an effective recursive flag
\* of false, r0 being the flag n inherits.
RECURSIVE RawCalls(_, _)
RawCalls(n, r0) ==
    IF n.kind = "list"
    THEN UNION {RawCalls(n.items[i], r0) : i \in 1..Len(n.items)}
    ELSE IF n.kind = "dict"
    THEN LET r == IF HasKey(n, "_recursive_")
                  THEN Get(n, "_recursive_", None).value ELSE r0
             below == UNION {RawCalls(n.items[i].node, r) : i \in 1..Len(n.items)}
         IN IF ~_is_target(n) THEN below
            ELSE IF r = "true" THEN below ELSE {n}
    ELSE {}

\* The convert mode of the last call; no node of RawConfigs sets its own.
TopConvert == Get(last.config, "_convert_", Scalar("none")).value

\* The entries of a Call as its constructor gets them when they are not
\* evaluated.
RECURSIVE RawEntries(_, _)
RawEntries(items, convert) ==
    IF items = <<>> THEN <<>>
    ELSE IF Head(items).key \in exclude_keys THEN RawEntries(Tail(items), convert)
    ELSE <<Item(Head(items).key, _convert_node(Head(items).node, convert))>>
         \o RawEntries(Tail(items), convert)

\* The metadata of a node from its target alone.
OwnInfo(n, instance) ==
    LET nd == FuncInfo_from_func(TargetOf(n))
    IN [not_deterministic |-> nd,
        cache_result |-> ~NoCacheFlag(n),
        deterministic_config |->
            IF nd THEN ResultHashConfig(joblib_hash(instance)) ELSE None]

\* C24: when the effective recursive flag of a Call is false, nothing
\* happens between the entering of the node and the call of its constructor
\* but the miss of its own key (no entry is entered, looked up, written or
\* called), the constructor gets the entries as they stand in the
\* configuration without the target and the flag keys, and the metadata stored
\* for the node is that of its own target.
C24_NotRecursive ==
    Evaluated =>
        \A i \in CallEvents :
            last.log[i].node \in RawCalls(last.node, TopRecursive) =>
                LET n == last.log[i].node
                IN /\ \A m \in (EnterOf(i) + 1)..(i - 1) : last.log[m] = Event("miss", n)
                   /\ last.log[i].kwargs = RawEntries(n.items, TopConvert)
                   /\ n \in DOMAIN cache =>
                         [f \in {"not_deterministic", "cache_result",
                                  "deterministic_config"} |-> cache[n].info[f]]
                             = OwnInfo(n, cache[n].instance)

\* a Call with _recursive_ false above a node that is in the cache already,
\* and one above a not deterministic node, have been called
C24_Witness ==
    /\ Evaluated
    /\ last.node \in {TopNode(AddRaw, <<>>), TopNode(ConsumerRawSource, <<>>)}
    /\ Add23 \in DOMAIN last.pre
    /\ \E i \in CallEvents : last.log[i].node \in {ConsumerRaw, last.node}
                             /\ last.log[i].node \in RawCalls(last.node, TopRecursive)

\* ============================================== the deterministic substitute
\* two entries that depend on the not deterministic node
AddTwo == Call("add", <<Item("a", RandomSource), Item("b", Consumer)>>)
\* a not deterministic node that is evaluated beside one that is not
AddRawSource == Call("add", <<Item("a", ConsumerRawSource), Item("b", RandomSource)>>)
\* a not deterministic node inside a sequence
ConsumerSources ==
    Call("consumer", <<Item("xs", ListCfg(<<Scalar("1"), RandomSource>>))>>)

\* The configurations of SpecSubst.
SubstConfigs == {AddTwo, ConsumerSources, AddRawSource}

NextSubst == \E config \in SubstConfigs : Instantiate(config, <<>>, <<>>, "shared")

SpecSubst == Init /\ [][NextSubst]_vars

\* The configuration n, which inherits the recursive flag r0, with the
\* sub-tree of every nearest evaluated not deterministic node (n itself, if
\* its target is not deterministic) replaced by the placeholder of the hash of
\* the value that the store holds for it.
RECURSIVE Replaced(_, _, _)
ReplacedItems(n, r, as_call, store) ==
    [i \in 1..Len(n.items) |->
        IF as_call /\ (n.items[i].key \in exclude_keys \/ r # "true")
        THEN n.items[i]
        ELSE Item(n.items[i].key, Replaced(n.items[i].node, r, store))]

Replaced(n, r0, store) ==
    IF n.kind = "list"
    THEN ListCfg([i \in 1..Len(n.items) |-> Replaced(n.items[i], r0, store)])
    ELSE IF n.kind = "dict"
    THEN LET r == IF HasKey(n, "_recursive_")
                  THEN Get(n, "_recursive_", None).value ELSE r0
         IN IF OwnNotDeterministic(n)
            THEN ResultHashConfig(joblib_hash(store[n].instance))
            ELSE DictCfg(ReplacedItems(n, r, _is_target(n), store))
    ELSE n

SecondaryAt ==
    LET at == {i \in 1..Len(last.log) :
                  last.log[i].ev = "hit" /\ last.log[i].node \notin CallNodes(last.node)}
    IN IF at = {} THEN 0 ELSE CHOOSE i \in at : \A j \in at : j <= i

\* The last call evaluated a deterministic Call that missed on its own key
\* and hit on its substitute key.
SecondaryHit ==
    /\ Evaluated /\ _is_target(last.node) /\ ~OwnNotDeterministic(last.node)
    /\ last.log[2] = Event("miss", last.node)
    /\ SecondaryAt # 0

\* The entries of the node of the last call that are evaluated.
ChildCalls ==
    {last.node.items[i].node : i \in {j \in 1..Len(last.node.items) :
        /\ last.node.items[j].key \notin exclude_keys
        /\ _is_target(last.node.items[j].node)}}

\* C26: when a deterministic Call misses on its own key and its substitute
\* key is in the cache, then the stored entry is returned after the entries of
\* the node have been evaluated, the constructor of the node is not invoked,
\* the node writes nothing (neither under its own key, which stays absent, nor
\* under the substitute key, whose entry stays as it was), and the next
\* evaluation of the same node evaluates its entries again.
C26_SecondaryHit ==
    /\ [](SecondaryHit =>
            LET S == last.log[SecondaryAt].node
            IN /\ S = Substitute
               /\ S \in DOMAIN last.pre
               /\ InstantiatedNode(last.instance, last.info) = last.pre[S]
               /\ cache[S] = last.pre[S]
               /\ \A c \in ChildCalls :
                     \E i \in 1..SecondaryAt : last.log[i] = Event("enter", c)
               /\ SecondaryAt + 1 = Len(last.log)
               /\ last.log[Len(last.log)] = Event("return", last.node)
               /\ CallsOf(last.log, last.node) = 0
               /\ WritesOf(last.log, last.node) = 0 /\ WritesOf(last.log, S) = 0
               /\ last.node \notin DOMAIN cache)
    /\ [][SecondaryHit /\ SecondEvaluation =>
            /\ last'.log[2] = Event("miss", last.node)
            /\ \A c \in ChildCalls : EntersOf(last'.log, c) >= 1]_vars

\* a node was answered from its substitute key twice in a row, its entry
\* being evaluated again the second time
C26_Witness ==
    /\ SecondaryHit
    /\ last.again
    /\ last.node \notin DOMAIN last.pre
    /\ \E c \in ChildCalls : EntersOf(last.log, c) = 1

\* ================================================ arguments and the key
\* C27: the positional arguments of the caller are no part of the key of the
\* top-level Call: an evaluation of a configuration right after an evaluation
\* of the same configuration on the same cache, with other positional
\* arguments, returns the value of the first and does not invoke the
\* constructor.
C27_ArgsNotInKey ==
    [][(/\ Evaluated /\ last.mode = "shared"
        /\ last'.op = "instantiate" /\ last'.mode = "shared"
        /\ last'.node = last.node /\ last'.args # last.args)
       => /\ last'.err = "none"
          /\ last'.instance = last.instance
          /\ last'.log = <<Event("enter", last.node), Event("hit", last.node),
                           Event("return", last.node)>>
          /\ cache' = cache]_vars

\* a call with a positional argument has returned the value that was
\* constructed without one
C27_Witness ==
    /\ Evaluated /\ last.again
    /\ last.args = <<Scalar("9")>>
    /\ last.instance.args = <<>>
    /\ CallsOf(last.log, last.node) = 0

\* ================================================= inherited modes
\* _recursive_ false given for the whole tree
AddNestedRaw ==
    Call("add", <<Item("_recursive_", Scalar("false")),
                  Item("a", Scalar("1")), Item("b", Add23)>>)
\* a sequence as an entry, without and with a convert mode for the whole tree
ConsumerSeq == Call("consumer", <<Item("xs", ListCfg(<<Scalar("1"), Add23>>))>>)
ConsumerSeqPartial ==
    Call("consumer", <<Item("_convert_", Scalar("partial")),
                       Item("xs", ListCfg(<<Scalar("1"), Add23>>))>>)

\* The configurations of SpecInherit: the same nodes under different modes of
\* their callers.
InheritConfigs == {AddNested, AddNestedRaw, PlainRaw, ConsumerSeq, ConsumerSeqPartial}

NextInherit == \E config \in InheritConfigs : Instantiate(config, <<>>, <<>>, "shared")

SpecInherit == Init /\ [][NextInherit]_vars

NotModeFlag(item) == item.key \notin {"_recursive_", "_convert_"}

\* The configuration without the recursive and convert flags of its top level.
Unflagged(config) == [config EXCEPT !.items = SelectSeq(config.items, NotModeFlag)]

\* C28: the lookup of a Call node takes the node's content only.  A Call that
\* is entered while the cache holds an entry under its configuration is
\* answered from that entry, whatever modes it inherits; and an evaluation of
\* a configuration right after an evaluation of a configuration that differs
\* from it in the recursive and convert flags of the top level only returns
\* the stored entry unchanged, invokes no constructor and leaves the cache as
\* it is.
C28_ModesNotInKey ==
    /\ [](Evaluated =>
            \A i \in 1..Len(last.log) :
                (last.log[i].ev = "enter" /\ last.log[i].node \in DOMAIN last.pre)
                => /\ last.log[i + 1] = Event("hit", last.log[i].node)
                   /\ last.log[i + 2] = Event("return", last.log[i].node))
    /\ [][(/\ Evaluated /\ _is_target(last.config)
           /\ last'.op = "instantiate"
           /\ last'.config # last.config
           /\ Unflagged(last'.config) = Unflagged(last.config))
          => /\ last'.err = "none"
             /\ Unflagged(last.config) \in DOMAIN cache
             /\ InstantiatedNode(last'.instance, last'.info)
                   = cache[Unflagged(last.config)]
             /\ InstantiatedNode(last'.instance, last'.info)
                   = InstantiatedNode(last.instance, last.info)
             /\ \A i \in 1..Len(last'.log) : last'.log[i].ev # "call"
             /\ cache' = cache]_vars

\* an evaluation that is to evaluate the entries has returned the instance
\* that was made of the entries as they stand in the configuration
C28_Witness ==
    /\ Evaluated /\ last.config = AddNested
    /\ last.instance.kwargs[2].node = Add23
    /\ CallsOf(last.log, last.node) = 0

\* ===================================================== well-formed entries
\* a mapping without target above a deterministic node above a not
\* deterministic one
PlainSource == DictCfg(<<Item("x", Consumer)>>)

\* The configurations of SpecKeys: Call nodes below sequences and mappings
\* without target, above not deterministic nodes, and nodes that are not to be
\* cached.
KeyConfigs == {ConsumerSources, PlainSource, AddNoCache}

NextKeys == \E config \in KeyConfigs : Instantiate(config, <<>>, <<>>, "shared")

SpecKeys == Init /\ [][NextKeys]_vars

\* The key is the substitute of a Call: one of its entries is the placeholder
\* of a hash, directly or in a sequence.
IsPlaceholder(n) == IsDict(n) /\ HasKey(n, "_result_hash_")
HoldsPlaceholder(k) ==
    \E i \in 1..Len(k.items) :
        \/ IsPlaceholder(k.items[i].node)
        \/ /\ IsList(k.items[i].node)
           /\ \E j \in 1..Len(k.items[i].node.items) :
                 IsPlaceholder(k.items[i].node.items[j])

\* C29: every entry in the cache has a key with a target (the configuration
\* of a Call node or the substitute of one, never a scalar, a sequence, a
\* mapping without target or the placeholder of a hash alone), an info whose
\* cache_result is true, and an elapsed time; and nothing else is ever
\* written.
C29_WellFormedEntries ==
    /\ \A k \in DOMAIN cache :
          /\ _is_target(k)
          /\ ~IsPlaceholder(k)
          /\ cache[k].info.cache_result
          /\ cache[k].info.time_target # NoTime
    /\ last.op = "instantiate"
          => \A i \in 1..Len(last.log) :
                last.log[i].ev = "write" => last.log[i].node \in DOMAIN cache

\* The cache holds the entries of Call nodes and of substitutes, and the last
\* call has evaluated a mapping without target, a sequence and Call nodes
\* that are not to be cached, none of which became a key.
C29_Witness ==
    /\ Evaluated /\ last.node = AddNoCache
    /\ {ConsumerNoCache, AddNoCache} \cap DOMAIN cache = {}
    /\ CallsOf(last.log, AddNoCache) = 1
    /\ \E k \in DOMAIN cache : HoldsPlaceholder(k) /\ IsList(k.items[2].node)
    /\ \E k \in DOMAIN cache : HoldsPlaceholder(k) /\ ~IsList(k.items[2].node)
    /\ \E k \in DOMAIN cache : ~HoldsPlaceholder(k)

\* ============================================================ write once
\* C30: an evaluation removes no entry of the cache and leaves the value and
\* the info under every key that the cache held as they were; each key that it
\* writes was absent, is written once, and its lookup has missed earlier in
\* the same evaluation.
C30_WriteOnce ==
    [][last'.op = "instantiate" =>
          /\ \A k \in DOMAIN cache : k \in DOMAIN cache' /\ cache'[k] = cache[k]
          /\ \A i \in 1..Len(last'.log) :
                last'.log[i].ev = "write" =>
                   /\ last'.log[i].node \notin DOMAIN cache
                   /\ \E j \in 1..(i - 1) : last'.log[j] = Event("miss", last'.log[i].node)
                   /\ \A j \in 1..Len(last'.log) :
                         last'.log[j] = last'.log[i] => j = i]_vars

\* an evaluation on a cache that held a substitute key of the node has added
\* the node's key, the key of its entry and another substitute key, and has
\* left what was there
C30_Witness ==
    /\ Evaluated /\ last.node = Consumer
    /\ \E k \in DOMAIN last.pre : HoldsPlaceholder(k)
    /\ \E k \in DOMAIN cache \ DOMAIN last.pre : HoldsPlaceholder(k)
    /\ {Consumer, RandomSource} \subseteq DOMAIN cache \ DOMAIN last.pre
    /\ \A k \in DOMAIN last.pre : cache[k] = last.pre[k]

====
